---- MODULE Spec2Model ----
(***************************************************************************)
(* The agent loop of parallellm-qa (src/run_chats.py, src/run_login.py):   *)
(* the agent / tools / check graph of the chat flow and of the login flow, *)
(* the history compactor truncate_html_tool_messages, the trace recorder   *)
(* run_and_save_execution_trace and the staging of a failed run            *)
(* (src/utils/files.py), the tool type_text (src/utils/tools.py) and the   *)
(* upload of an error folder (src/monitor.py).                             *)
(*                                                                         *)
(* Text is a sequence of one-character strings, so that slicing, length    *)
(* and substring search are computed as Python computes them.              *)
(***************************************************************************)
EXTENDS Integers, Sequences, FiniteSets, TLC

VARIABLES
    flow,               \* "chat" | "login" | "compact" | "type_text" | "monitor"
    pc,                 \* where the program is: "stream", "returned", an exception's name, ...
    node,               \* the node the graph runs next: "agent" | "tools" | "check" | "END"
    step,               \* supersteps executed so far by app.stream
    messages,           \* State["messages"], the stored history
    view,               \* the history handed to model.invoke by the last agent_node
    status,             \* State["status"]
    health,             \* State["health"] (chat flow)
    health_description, \* State["health_description"] (chat flow)
    num_turns,          \* State["num_turns"] (chat flow)
    turns_completed,    \* State["turns_completed"] (chat flow)
    driver,             \* the browser session: [url, password_field]
    final_state,        \* the last step yielded by the stream: [node, update]
    total_steps,        \* len(trace["steps"])
    result,             \* what the run returned: <<success, artefacts_dir>> (<<>> before)
    trace,              \* the trace dict of run_and_save_execution_trace
    trace_file,         \* the documents written to execution_trace.json, in order
    uuids,              \* how many times uuid.uuid4() was called
    error_folder,       \* the folder staged under artefacts/error (<<>> if none)
    creds,              \* type_text: the credentials of two runs, <<creds of A, creds of B>>
    typing,             \* type_text: the call and the page, the same in both runs
    log,                \* type_text: the lines logged by each run
    tool_out,           \* type_text: what each run typed and returned
    folder,             \* monitor: the error folder given to upload_folder_to_s3
    s3_outcome,         \* monitor: what upload_file does for each file of the folder
    s3,                 \* monitor: the files uploaded
    upload_result,      \* monitor: what upload_folder_to_s3 returned (<<>> before)
    config,             \* monitor: [s3_prefix, sns, no_delete] of the ErrorFolderMonitor
    error_dir,          \* monitor: the entries of artefacts/error, by name
    scanned,            \* monitor: the list scan_for_folders returned
    position,           \* monitor: how many folders of the list the loop has taken
    processed_successfully, \* monitor: the counter of process_folders
    bucket,             \* monitor: the keys of the objects uploaded
    notifications,      \* monitor: the notifications published, in order
    handled,            \* monitor: what was done with each folder taken, in order
    stager,             \* the copy_trace_to_error_folder call running beside the monitor
    scans,              \* monitor: how many times run() has scanned
    artefacts           \* stager: the artefact directories of the failed runs

loopVars == <<flow, pc, node, step, messages, view, status, health, health_description,
              num_turns, turns_completed, driver, final_state, total_steps, result>>
traceVars == <<trace, trace_file, uuids, error_folder>>
toolVars == <<creds, typing, log, tool_out>>
monitorVars == <<folder, s3_outcome, s3, upload_result>>
batchVars == <<config, error_dir, scanned, position, processed_successfully, bucket,
               notifications, handled, stager, scans, artefacts>>

vars == <<loopVars, traceVars, toolVars, monitorVars, batchVars>>

(***************************************************************************)
(* Bounds of the model.                                                    *)
(***************************************************************************)
\* recursion_limit of the chat run (100 in run_chats.py:350), scaled down
RecursionLimitChat == 8
\* recursion_limit of the login run (the graph library's default, 25), scaled down
RecursionLimitLogin == 6
\* most ToolMessages in a history given to the compactor on its own
MaxTools == 5

(***************************************************************************)
(* Program constants of the compactor.                                     *)
(***************************************************************************)
\* content[:100] and content[-100:]
KeepChars == 100
\* len(content) > 300
TruncateThreshold == 300
\* len(content) - 200
ElidedOffset == 200

Min(a, b) == IF a < b THEN a ELSE b
Max(a, b) == IF a > b THEN a ELSE b

(***************************************************************************)
(* Text.                                                                   *)
(***************************************************************************)
Fill(ch, n) == [i \in 1..n |-> ch]

\* Python: s[:n]
Prefix(s, n) == SubSeq(s, 1, Min(n, Len(s)))
\* Python: s[-n:]
Suffix(s, n) == SubSeq(s, Max(1, Len(s) - n + 1), Len(s))

\* Python: ind in s
Contains(ind, s) ==
    \E i \in 1..(Len(s) - Len(ind) + 1) : \A k \in 1..Len(ind) : s[i + k - 1] = ind[k]

Digit(d) == <<"0", "1", "2", "3", "4", "5", "6", "7", "8", "9">>[d + 1]

\* Python: str(n) for n >= 0, as an f-string formats an int
RECURSIVE IntToText(_)
IntToText(n) == IF n < 10 THEN <<Digit(n)>> ELSE IntToText(n \div 10) \o <<Digit(n % 10)>>

html_indicators ==
    << <<"<","!","D","O","C","T","Y","P","E">>,
       <<"<","h","t","m","l">>,
       <<"<","h","e","a","d",">">>,
       <<"<","b","o","d","y",">">>,
       <<"<","d","i","v">>,
       <<"<","s","c","r","i","p","t">>,
       <<"<","s","p","a","n">> >>

contains_html(content) ==
    \E j \in 1..Len(html_indicators) : Contains(html_indicators[j], content)

MarkerHead == <<"\n",".",".","."," ","[","t","r","u","n","c","a","t","e","d"," ">>
MarkerTail == <<" ","c","h","a","r","a","c","t","e","r","s","]"," ",".",".",".","\n">>

(***************************************************************************)
(* Messages.  type is the class of the message; tool_calls is empty and    *)
(* tool_call_id is NoCallId where the class does not carry them.           *)
(***************************************************************************)
\* None, where a message id is expected
None == 0
\* the tool_call_id of a message that answers no tool call
NoCallId == <<>>

SystemMessage(id, content) ==
    [type |-> "SystemMessage", content |-> content, tool_calls |-> <<>>,
     tool_call_id |-> NoCallId, id |-> id]
HumanMessage(id, content) ==
    [type |-> "HumanMessage", content |-> content, tool_calls |-> <<>>,
     tool_call_id |-> NoCallId, id |-> id]
AIMessage(id, tool_calls) ==
    [type |-> "AIMessage", content |-> <<>>, tool_calls |-> tool_calls,
     tool_call_id |-> NoCallId, id |-> id]
ToolMessage(content, tool_call_id, id) ==
    [type |-> "ToolMessage", content |-> content, tool_calls |-> <<>>,
     tool_call_id |-> tool_call_id, id |-> id]

\* mutant: the class of the message is not looked at
IsHtmlToolMessage_AnyType(msg) == contains_html(msg.content)

IsHtmlToolMessage(msg) == msg.type = "ToolMessage" /\ contains_html(msg.content)

(***************************************************************************)
(* The history compactor.                                                  *)
(***************************************************************************)
\* mutant: the marker counts from the head only
TruncatedContent_WrongCount(content) ==
    Prefix(content, KeepChars)
        \o MarkerHead \o IntToText(Len(content) - KeepChars) \o MarkerTail
        \o Suffix(content, KeepChars)

\* mutant: the marker is inserted but nothing is left out
TruncatedContent_NoElision(content) ==
    Prefix(content, KeepChars)
        \o MarkerHead \o IntToText(Len(content) - ElidedOffset) \o MarkerTail
        \o Suffix(content, Len(content) - KeepChars)

TruncatedContent(content) ==
    Prefix(content, KeepChars)
        \o MarkerHead \o IntToText(Len(content) - ElidedOffset) \o MarkerTail
        \o Suffix(content, KeepChars)

\* mutant: the rewritten message loses its tool_call_id
TruncateMessage_DropsCallId(msg, last_html_msg_id) ==
    IF IsHtmlToolMessage(msg) /\ msg.id # last_html_msg_id
                              /\ Len(msg.content) > TruncateThreshold
    THEN ToolMessage(TruncatedContent(msg.content), NoCallId, msg.id)
    ELSE msg

\* mutant: whatever is longer than the kept head is truncated
TruncateMessage_LowThreshold(msg, last_html_msg_id) ==
    IF IsHtmlToolMessage(msg) /\ msg.id # last_html_msg_id
                              /\ Len(msg.content) > KeepChars
    THEN ToolMessage(TruncatedContent(msg.content), msg.tool_call_id, msg.id)
    ELSE msg

\* the body of the second loop for one message
TruncateMessage(msg, last_html_msg_id) ==
    IF IsHtmlToolMessage(msg)
    THEN IF msg.id = last_html_msg_id
         THEN msg
         ELSE IF Len(msg.content) > TruncateThreshold
              THEN ToolMessage(TruncatedContent(msg.content), msg.tool_call_id, msg.id)
              ELSE msg
    ELSE msg

\* mutant: the first markup-bearing ToolMessage is kept, not the last
truncate_html_tool_messages_KeepFirst(msgs) ==
    LET tool_messages_with_html == SelectSeq(msgs, IsHtmlToolMessage)
        first_html_msg_id ==
            IF Len(tool_messages_with_html) > 0
            THEN tool_messages_with_html[1].id
            ELSE None
    IN  [i \in 1..Len(msgs) |-> TruncateMessage(msgs[i], first_html_msg_id)]

truncate_html_tool_messages(msgs) ==
    LET tool_messages_with_html == SelectSeq(msgs, IsHtmlToolMessage)
        last_html_msg_id ==
            IF Len(tool_messages_with_html) > 0
            THEN tool_messages_with_html[Len(tool_messages_with_html)].id
            ELSE None
    IN  [i \in 1..Len(msgs) |-> TruncateMessage(msgs[i], last_html_msg_id)]

(***************************************************************************)
(* Dictionaries (Python dict): a function from keys to values.             *)
(***************************************************************************)
EmptyDict == <<>>
Get(d, key, default) == IF key \in DOMAIN d THEN d[key] ELSE default

(***************************************************************************)
(* The browser session, as far as _is_logged_in reads it: whether the URL  *)
(* contains "login" or "signin", and whether a password input is present.  *)
(***************************************************************************)
DriverStates ==
    { [url |-> "login",  password_field |-> TRUE],
      [url |-> "signin", password_field |-> TRUE],
      [url |-> "app",    password_field |-> TRUE],
      [url |-> "app",    password_field |-> FALSE] }

is_logged_in(d) ==
    IF d.url \in {"login", "signin"}
    THEN FALSE
    ELSE ~d.password_field

(***************************************************************************)
(* Texts the tools return.                                                 *)
(***************************************************************************)
\* a page source just over the truncation threshold
PageHtml == <<"<","!","D","O","C","T","Y","P","E">> \o Fill("x", TruncateThreshold - 8)
\* a page source of exactly the threshold's length
Page300 == <<"<","h","t","m","l">> \o Fill("y", TruncateThreshold - 5)
\* a long page source, its only markup in the part a digest leaves out
PageLong ==
    Fill("z", KeepChars + 1) \o <<"<","!","D","O","C","T","Y","P","E">>
        \o Fill("z", 4 * TruncateThreshold - KeepChars - 10)
TextOK == <<"O","K">>
TextError ==
    <<"E","r","r","o","r",":"," ","n","o"," ","s","u","c","h"," ","e","l","e","m","e","n","t",
      " ","<","d","i","v"," ","i","d","=","x",">">>
\* the tool node's answer to a call whose arguments do not fit the tool
TextInvalid ==
    <<"E","r","r","o","r",":"," ","h","e","a","l","t","h"," ","F","i","e","l","d"," ",
      "r","e","q","u","i","r","e","d">>
TextTrue == <<"T","r","u","e">>
TextFalse == <<"F","a","l","s","e">>
TextCompletion == <<"C","o","m","p","l","e","t","i","o","n"," ","r","e","p","o","r","t","e","d">>
TextSystem == <<"Y","o","u"," ","a","r","e">>
\* "Instructions: ... Initial HTML (cleaned): ..."
TextGoalAndHtml == <<"I","n","s","t","r","u","c","t","i","o","n","s",":"," ">> \o PageHtml

(***************************************************************************)
(* The decision function (model.invoke): what it may answer.  A tool call  *)
(* is [name, args, id]; ids are unique within a run.                       *)
(***************************************************************************)
Call(name, args) == [name |-> name, args |-> args]

ReportCompletion(h) ==
    Call("report_completion", [health |-> h, health_description |-> "as reported"])
\* a report_completion request without its health argument
ReportNoHealth == Call("report_completion", [health_description |-> "as reported"])
GetPageHtml == Call("get_page_html", EmptyDict)
Click == Call("click", [selector |-> "button", by |-> "css"])
Navigate == Call("navigate", [url |-> "https://chat.parallellm.com"])
CheckIsLoggedIn == Call("check_is_logged_in", EmptyDict)

ChatResponses ==
    { <<>>,
      <<GetPageHtml>>,
      <<Click>>,
      <<GetPageHtml, GetPageHtml>>,
      <<ReportCompletion("OK")>>,
      <<ReportCompletion("ERROR")>>,
      <<ReportCompletion("DEGRADED")>>,
      <<ReportNoHealth>>,
      <<GetPageHtml, ReportCompletion("OK")>>,
      <<ReportCompletion("OK"), ReportCompletion("ERROR")>>,
      <<ReportCompletion("ERROR"), Click>> }

LoginResponses ==
    { <<>>,
      <<Navigate>>,
      <<GetPageHtml>>,
      <<Click>>,
      <<CheckIsLoggedIn>>,
      <<GetPageHtml, GetPageHtml>>,
      <<GetPageHtml, CheckIsLoggedIn>> }

\* the response as an AIMessage: every call gets an id no other call of the run has
Response(msg_id, calls) ==
    AIMessage(msg_id,
              [k \in 1..Len(calls) |->
                  [name |-> calls[k].name, args |-> calls[k].args, id |-> <<msg_id, k>>]])

Last(seq) == seq[Len(seq)]

(***************************************************************************)
(* ToolNode: one ToolMessage per tool call of the last message, in order.  *)
(* A tool that fails returns its error text as the result.                 *)
(***************************************************************************)
ToolOutputs(call, d) ==
    CASE call.name = "get_page_html" -> {PageHtml}
      [] call.name = "click" -> {TextOK, TextError}
      [] call.name = "navigate" -> {TextOK}
      [] call.name = "check_is_logged_in" -> {IF is_logged_in(d) THEN TextTrue ELSE TextFalse}
      [] call.name = "report_completion" ->
            {IF "health" \in DOMAIN call.args THEN TextCompletion ELSE TextInvalid}

ToolTexts == {PageHtml, TextOK, TextError, TextInvalid, TextTrue, TextFalse, TextCompletion}

\* the results the tools may give for the calls of one message
ToolResults(calls, d) ==
    { r \in [1..Len(calls) -> ToolTexts] : \A k \in 1..Len(calls) : r[k] \in ToolOutputs(calls[k], d) }

\* the session after the calls of one message: click and navigate may change the page
DriverAfter(calls, d) ==
    IF \E k \in 1..Len(calls) : calls[k].name \in {"click", "navigate"}
    THEN DriverStates
    ELSE {d}

ToolNode(msgs, results) ==
    LET calls == Last(msgs).tool_calls
    IN  [k \in 1..Len(calls) |-> ToolMessage(results[k], calls[k].id, Len(msgs) + k)]

(***************************************************************************)
(* The nodes.  Each returns its update, a dict of the State keys it sets.  *)
(***************************************************************************)
\* run_chats.py agent_node: the history the model is invoked with
agent_view_chat(msgs) == truncate_html_tool_messages(msgs)
\* run_login.py agent_node: the history the model is invoked with
agent_view_login(msgs) == msgs

agent_node_WritesStatus(response) == [messages |-> <<response>>, status |-> "continue"]

agent_node(response) == [messages |-> <<response>>]

\* the loop over last_message.tool_calls of tools_node
RECURSIVE ExtractCompletion(_, _)
ExtractCompletion(tool_calls, updates) ==
    IF tool_calls = <<>>
    THEN updates
    ELSE LET tool_call == Head(tool_calls)
         IN  ExtractCompletion(
                 Tail(tool_calls),
                 IF tool_call.name = "report_completion"
                 THEN [health |-> Get(tool_call.args, "health", "UNKNOWN"),
                       health_description |-> Get(tool_call.args, "health_description", ""),
                       status |-> "completed"] @@ updates
                 ELSE updates)

\* mutant: the act step records the health fields but leaves status alone
tools_node_HealthOnly(msgs, results) ==
    LET last_message == Last(msgs)
        updates == [messages |-> ToolNode(msgs, results)]
        full == IF last_message.type = "AIMessage"
                THEN ExtractCompletion(last_message.tool_calls, updates)
                ELSE updates
    IN  [k \in DOMAIN full \ {"status"} |-> full[k]]

tools_node(msgs, results) ==
    LET last_message == Last(msgs)
        updates == [messages |-> ToolNode(msgs, results)]
    IN  IF last_message.type = "AIMessage"
        THEN ExtractCompletion(last_message.tool_calls, updates)
        ELSE updates

\* run_login.py: the tools node is ToolNode itself
post_tools(msgs, results) == [messages |-> ToolNode(msgs, results)]

\* mutant: the check completes the run once the turns are used up
check_node_chat_ByTurns(st, h, hd) ==
    IF st = "completed" \/ total_steps >= 2 * num_turns
    THEN [status |-> "completed", health |-> h, health_description |-> hd]
    ELSE [status |-> "continue"]

\* mutant: the check writes the initial health back
check_node_chat_ResetsHealth(st, h, hd) ==
    IF st = "completed"
    THEN [status |-> "completed", health |-> "UNKNOWN", health_description |-> ""]
    ELSE [status |-> "continue"]

check_node_chat(st, h, hd) ==
    IF st = "completed"
    THEN [status |-> "completed", health |-> h, health_description |-> hd]
    ELSE [status |-> "continue"]

\* mutant: an Assistant message without tool calls counts as "done"
check_node_login_TrustsAgent(d) ==
    IF is_logged_in(d) \/ Last(messages).type = "AIMessage"
    THEN [status |-> "logged_in"]
    ELSE [status |-> "continue"]

\* mutant: the check looks at the address only
check_node_login_UrlOnly(d) ==
    IF d.url \notin {"login", "signin"}
    THEN [status |-> "logged_in"]
    ELSE [status |-> "continue"]

check_node_login(d) ==
    IF is_logged_in(d)
    THEN [status |-> "logged_in"]
    ELSE [status |-> "continue"]

(***************************************************************************)
(* Routing.                                                                *)
(***************************************************************************)
\* mutant: the tool calls of the last message are not looked at
should_continue_AlwaysCheck(msgs) == "check"

should_continue(msgs) ==
    LET last_message == Last(msgs)
    IN  IF last_message.type = "AIMessage" /\ Len(last_message.tool_calls) > 0
        THEN "tools"
        ELSE "check"

\* mutant: the check never ends the run
route_after_check_chat_NeverEnds(st) == "loop"

route_after_check_chat(st) == IF st = "completed" THEN "end" ELSE "loop"
route_after_check_login(st) == IF st = "logged_in" THEN "end" ELSE "loop"

\* add_conditional_edges("check", route_after_check, {"end": END, "loop": "agent"})
AfterCheck(route) == IF route = "end" THEN "END" ELSE "agent"

(***************************************************************************)
(* The trace recorder (run_and_save_execution_trace of each flow).         *)
(***************************************************************************)
\* Python None where a text is expected; null in the JSON document
null == "null"

\* uuid.uuid4(): a value no earlier call has returned
uuid4(calls) == calls + 1

message_to_dict(msg) ==
    LET basic == [type |-> msg.type, content |-> msg.content]
        with_calls ==
            IF msg.type = "AIMessage" /\ msg.tool_calls # <<>>
            THEN [tool_calls |-> msg.tool_calls] @@ basic
            ELSE basic
    IN  IF msg.type = "ToolMessage"
        THEN [tool_call_id |-> msg.tool_call_id] @@ with_calls
        ELSE with_calls

messages_to_dicts(msgs) == [i \in 1..Len(msgs) |-> message_to_dict(msgs[i])]

\* run_chats.py: the snapshot of one step {node_name: node_state}
step_data_chat(node_name, node_state) ==
    node_name :>
        [status |-> Get(node_state, "status", null),
         health |-> Get(node_state, "health", null),
         health_description |-> Get(node_state, "health_description", null),
         goal |-> Get(node_state, "goal", null),
         messages |-> messages_to_dicts(Get(node_state, "messages", <<>>)),
         artefacts_dir |-> Get(node_state, "artefacts_dir", null)]

\* run_login.py: the snapshot of one step
step_data_login(node_name, node_state) ==
    node_name :>
        [status |-> Get(node_state, "status", null),
         goal |-> Get(node_state, "goal", null),
         messages |-> messages_to_dicts(Get(node_state, "messages", <<>>)),
         artefacts_dir |-> Get(node_state, "artefacts_dir", null)]

\* mutant: a step that brings no message is not recorded
append_step_SkipsEmpty(tr, step_data) ==
    IF \A n \in DOMAIN step_data : step_data[n].messages = <<>>
    THEN tr
    ELSE [tr EXCEPT !.steps = Append(@, step_data)]

\* trace["steps"].append(step_data)
append_step(tr, step_data) == [tr EXCEPT !.steps = Append(@, step_data)]

\* the trace dict as it is created, before the stream is read
new_trace_chat(calls) ==
    [run_id |-> uuid4(calls), run_type |-> "run_chats", timestamp |-> "utcnow", steps |-> <<>>]
new_trace_login == [timestamp |-> "utcnow", steps |-> <<>>]

(***************************************************************************)
(* The graph run: app.stream yields one step {node: update} per node run,  *)
(* after the update is merged into the State (messages are appended, the   *)
(* other keys overwritten); run_and_save_execution_trace consumes it.      *)
(***************************************************************************)
recursion_limit == IF flow = "chat" THEN RecursionLimitChat ELSE RecursionLimitLogin

\* ensure_artefacts_dir(subfolder=...): the directory of the run's artefacts
artefacts_dir == IF flow = "chat" THEN "artefacts/run_chats" ELSE "artefacts/run_login"

NoStep == [node |-> "none", update |-> EmptyDict]

\* mutant: the compacted view is stored back as the history
Merge_StoresView(update) ==
    /\ messages' = IF "messages" \in DOMAIN update
                   THEN truncate_html_tool_messages(messages) \o update.messages
                   ELSE truncate_html_tool_messages(messages)
    /\ status' = Get(update, "status", status)
    /\ health' = Get(update, "health", health)
    /\ health_description' = Get(update, "health_description", health_description)

Merge(update) ==
    /\ messages' = IF "messages" \in DOMAIN update
                   THEN messages \o update.messages
                   ELSE messages
    /\ status' = Get(update, "status", status)
    /\ health' = Get(update, "health", health)
    /\ health_description' = Get(update, "health_description", health_description)

Yield(name, update) ==
    /\ step' = step + 1
    /\ final_state' = [node |-> name, update |-> update]
    /\ total_steps' = total_steps + 1
    /\ trace' = append_step(trace, IF flow = "chat"
                                   THEN step_data_chat(name, update)
                                   ELSE step_data_login(name, update))

CanRun(name) == pc = "stream" /\ node = name /\ step < recursion_limit

\* the parts of the state that a specification does not use
IdleTrace == trace = EmptyDict /\ trace_file = <<>> /\ uuids = 0 /\ error_folder = <<>>
IdleTools == creds = <<>> /\ typing = EmptyDict /\ log = <<>> /\ tool_out = <<>>
IdleMonitor == folder = EmptyDict /\ s3_outcome = <<>> /\ s3 = {} /\ upload_result = <<>>
IdleBatch ==
    /\ config = EmptyDict /\ error_dir = EmptyDict /\ scanned = <<>> /\ position = 0
    /\ processed_successfully = 0 /\ bucket = {} /\ notifications = <<>>
    /\ handled = <<>> /\ stager = EmptyDict /\ scans = 0 /\ artefacts = EmptyDict

initial_messages == <<SystemMessage(1, TextSystem), HumanMessage(2, TextGoalAndHtml)>>

Init ==
    /\ flow \in {"chat", "login"}
    /\ pc = "stream"
    /\ node = "agent"
    /\ step = 0
    /\ messages = initial_messages
    /\ view = <<>>
    /\ status = "start"
    /\ health = "UNKNOWN"
    /\ health_description = ""
    /\ num_turns \in IF flow = "chat" THEN 1..2 ELSE {0}
    /\ turns_completed = 0
    /\ driver \in IF flow = "chat"
                  THEN {[url |-> "app", password_field |-> FALSE]}
                  ELSE DriverStates
    /\ final_state = NoStep
    /\ total_steps = 0
    /\ result = <<>>
    /\ trace = IF flow = "chat" THEN new_trace_chat(0) ELSE new_trace_login
    /\ uuids = IF flow = "chat" THEN 1 ELSE 0
    /\ trace_file = <<>>
    /\ error_folder = <<>>
    /\ IdleTools
    /\ IdleMonitor
    /\ IdleBatch

AgentChat ==
    /\ flow = "chat" /\ CanRun("agent")
    /\ \E calls \in ChatResponses :
          LET update == agent_node(Response(Len(messages) + 1, calls))
          IN  /\ view' = agent_view_chat(messages)
              /\ Merge(update)
              /\ Yield("agent", update)
    /\ node' = should_continue(messages')
    /\ UNCHANGED <<flow, pc, num_turns, turns_completed, driver, result>>
    /\ UNCHANGED <<trace_file, uuids, error_folder, toolVars, monitorVars>>
    /\ UNCHANGED batchVars

AgentLogin ==
    /\ flow = "login" /\ CanRun("agent")
    /\ \E calls \in LoginResponses :
          LET update == agent_node(Response(Len(messages) + 1, calls))
          IN  /\ view' = agent_view_login(messages)
              /\ Merge(update)
              /\ Yield("agent", update)
    /\ node' = should_continue(messages')
    /\ UNCHANGED <<flow, pc, num_turns, turns_completed, driver, result>>
    /\ UNCHANGED <<trace_file, uuids, error_folder, toolVars, monitorVars>>
    /\ UNCHANGED batchVars

ToolsChat ==
    /\ flow = "chat" /\ CanRun("tools")
    /\ \E results \in ToolResults(Last(messages).tool_calls, driver) :
          LET update == tools_node(messages, results)
          IN  /\ Merge(update)
              /\ Yield("tools", update)
    /\ node' = "check"
    /\ UNCHANGED <<flow, pc, view, num_turns, turns_completed, driver, result>>
    /\ UNCHANGED <<trace_file, uuids, error_folder, toolVars, monitorVars>>
    /\ UNCHANGED batchVars

ToolsLogin ==
    /\ flow = "login" /\ CanRun("tools")
    /\ \E results \in ToolResults(Last(messages).tool_calls, driver) :
          LET update == post_tools(messages, results)
          IN  /\ Merge(update)
              /\ Yield("tools", update)
    /\ driver' \in DriverAfter(Last(messages).tool_calls, driver)
    /\ node' = "check"
    /\ UNCHANGED <<flow, pc, view, num_turns, turns_completed, result>>
    /\ UNCHANGED <<trace_file, uuids, error_folder, toolVars, monitorVars>>
    /\ UNCHANGED batchVars

CheckChat ==
    /\ flow = "chat" /\ CanRun("check")
    /\ LET update == check_node_chat(status, health, health_description)
       IN  /\ Merge(update)
           /\ Yield("check", update)
    /\ node' = AfterCheck(route_after_check_chat(status'))
    /\ UNCHANGED <<flow, pc, view, num_turns, turns_completed, driver, result>>
    /\ UNCHANGED <<trace_file, uuids, error_folder, toolVars, monitorVars>>
    /\ UNCHANGED batchVars

CheckLogin ==
    /\ flow = "login" /\ CanRun("check")
    /\ LET update == check_node_login(driver)
       IN  /\ Merge(update)
           /\ Yield("check", update)
    /\ node' = AfterCheck(route_after_check_login(status'))
    /\ UNCHANGED <<flow, pc, view, num_turns, turns_completed, driver, result>>
    /\ UNCHANGED <<trace_file, uuids, error_folder, toolVars, monitorVars>>
    /\ UNCHANGED batchVars

\* the stream raises GraphRecursionError when the limit is reached before END;
\* nothing in run_and_save_execution_trace, run_chats or run_login catches it
RecursionLimitReached ==
    /\ pc = "stream" /\ node # "END" /\ step >= recursion_limit
    /\ pc' = "GraphRecursionError"
    /\ UNCHANGED <<flow, node, step, messages, view, status, health, health_description,
                   num_turns, turns_completed, driver, final_state, total_steps, result>>
    /\ UNCHANGED <<traceVars, toolVars, monitorVars>>
    /\ UNCHANGED batchVars

\* what run_and_save_execution_trace returns in the chat flow
final_state_info(fs) ==
    IF fs # NoStep
    THEN [health |-> Get(fs.update, "health", "UNKNOWN"),
          health_description |-> Get(fs.update, "health_description", "No description")]
    ELSE [health |-> "UNKNOWN", health_description |-> "No final state"]

chat_success(info) == info.health = "OK"

\* mutant: the summary is taken from the first snapshot
finalize_chat_FirstStep(tr, fs) ==
    IF fs # NoStep
    THEN LET first == tr.steps[1][CHOOSE n \in DOMAIN tr.steps[1] : TRUE]
         IN  [final_status |-> first.status, final_health |-> first.health,
              final_health_description |-> first.health_description,
              total_steps |-> Len(tr.steps)] @@ tr
    ELSE tr

\* run_chats.py: the summary fields, set after the stream has ended
finalize_chat(tr, fs) ==
    IF fs # NoStep
    THEN LET node_state == fs.update
             t1 == IF "status" \in DOMAIN node_state
                   THEN [final_status |-> node_state.status] @@ tr
                   ELSE tr
             t2 == IF "health" \in DOMAIN node_state
                   THEN [final_health |-> node_state.health] @@ t1
                   ELSE t1
             t3 == IF "health_description" \in DOMAIN node_state
                   THEN [final_health_description |-> node_state.health_description] @@ t2
                   ELSE t2
         IN  [total_steps |-> Len(tr.steps)] @@ t3
    ELSE tr

\* run_login.py: the summary fields
finalize_login(tr, fs) ==
    IF fs # NoStep
    THEN LET node_state == fs.update
             t1 == IF "status" \in DOMAIN node_state
                   THEN [final_status |-> node_state.status] @@ tr
                   ELSE tr
         IN  [total_steps |-> Len(tr.steps)] @@ t1
    ELSE tr

ReturnChat ==
    /\ flow = "chat" /\ pc = "stream" /\ node = "END"
    /\ trace' = finalize_chat(trace, final_state)
    /\ trace_file' = Append(trace_file, trace')
    /\ result' = <<chat_success(final_state_info(final_state)), artefacts_dir>>
    /\ pc' = "returned"
    /\ UNCHANGED <<flow, node, step, messages, view, status, health, health_description,
                   num_turns, turns_completed, driver, final_state, total_steps>>
    /\ UNCHANGED <<uuids, error_folder, toolVars, monitorVars>>
    /\ UNCHANGED batchVars

ReturnLogin ==
    /\ flow = "login" /\ pc = "stream" /\ node = "END"
    /\ trace' = finalize_login(trace, final_state)
    /\ trace_file' = Append(trace_file, trace')
    /\ result' = <<is_logged_in(driver), artefacts_dir>>
    /\ pc' = "returned"
    /\ UNCHANGED <<flow, node, step, messages, view, status, health, health_description,
                   num_turns, turns_completed, driver, final_state, total_steps>>
    /\ UNCHANGED <<uuids, error_folder, toolVars, monitorVars>>
    /\ UNCHANGED batchVars

Next ==
    \/ AgentChat
    \/ AgentLogin
    \/ ToolsChat
    \/ ToolsLogin
    \/ CheckChat
    \/ CheckLogin
    \/ RecursionLimitReached
    \/ ReturnChat
    \/ ReturnLogin

Spec == Init /\ [][Next]_vars

(***************************************************************************)
(* The run as its caller sees it: the decision function or a tool may      *)
(* raise, and a run that failed is staged under artefacts/error.           *)
(***************************************************************************)
\* mutant: the trace is written when the decision function raises
AgentChatFails_WritesTrace ==
    /\ flow = "chat" /\ CanRun("agent")
    /\ view' = agent_view_chat(messages)
    /\ trace_file' = Append(trace_file, trace)
    /\ pc' = "DecisionError"
    /\ UNCHANGED <<flow, node, step, messages, status, health, health_description,
                   num_turns, turns_completed, driver, final_state, total_steps, result>>
    /\ UNCHANGED <<trace, uuids, error_folder, toolVars, monitorVars>>
    /\ UNCHANGED batchVars

\* model.invoke raises inside agent_node: nothing catches it, in the node, in the
\* stream, in run_and_save_execution_trace or in run_chats
AgentChatFails ==
    /\ flow = "chat" /\ CanRun("agent")
    /\ view' = agent_view_chat(messages)
    /\ pc' = "DecisionError"
    /\ UNCHANGED <<flow, node, step, messages, status, health, health_description,
                   num_turns, turns_completed, driver, final_state, total_steps, result>>
    /\ UNCHANGED <<traceVars, toolVars, monitorVars>>
    /\ UNCHANGED batchVars

AgentLoginFails ==
    /\ flow = "login" /\ CanRun("agent")
    /\ view' = agent_view_login(messages)
    /\ pc' = "DecisionError"
    /\ UNCHANGED <<flow, node, step, messages, status, health, health_description,
                   num_turns, turns_completed, driver, final_state, total_steps, result>>
    /\ UNCHANGED <<traceVars, toolVars, monitorVars>>
    /\ UNCHANGED batchVars

\* the tools that call the driver or the file system outside any try
tools_without_handler ==
    IF flow = "chat"
    THEN {"get_page_html", "sleep", "save_chat_capture"}
    ELSE {"get_page_html", "type_text", "click", "check_is_logged_in", "sleep", "navigate",
          "post_login_capture"}

\* a tool raises and ToolNode(tools), built without handle_tool_errors, raises it
\* again: whether it does is the library's default, which the repository does not set
ToolsFail ==
    /\ CanRun("tools")
    /\ \E k \in 1..Len(Last(messages).tool_calls) :
          Last(messages).tool_calls[k].name \in tools_without_handler
    /\ pc' = "ToolError"
    /\ UNCHANGED <<flow, node, step, messages, view, status, health, health_description,
                   num_turns, turns_completed, driver, final_state, total_steps, result>>
    /\ UNCHANGED <<traceVars, toolVars, monitorVars>>
    /\ UNCHANGED batchVars

\* the caller judges the run failed: it raised, or it returned success = False
RunFailed ==
    \/ pc \in {"GraphRecursionError", "DecisionError", "ToolError"}
    \/ pc = "returned" /\ result[1] = FALSE

\* copy_trace_to_error_folder(artefacts_dir), called for a failed run
Stage ==
    /\ RunFailed
    /\ pc' = "staged"
    /\ IF trace_file = <<>>
       THEN UNCHANGED <<uuids, error_folder>>
       ELSE LET trace_data == Last(trace_file)
                run_id == Get(trace_data, "run_id", uuid4(uuids))
            IN  /\ uuids' = uuids + 1
                /\ error_folder' = [name |-> run_id, execution_trace |-> trace_data]
    /\ UNCHANGED <<flow, node, step, messages, view, status, health, health_description,
                   num_turns, turns_completed, driver, final_state, total_steps, result>>
    /\ UNCHANGED <<trace, trace_file, toolVars, monitorVars>>
    /\ UNCHANGED batchVars

NextRun ==
    \/ Next
    \/ AgentChatFails
    \/ AgentLoginFails
    \/ ToolsFail
    \/ Stage

SpecRun == Init /\ [][NextRun]_vars

(***************************************************************************)
(* type_text on its own: the same call on the same page in two runs that   *)
(* differ at most in their credentials.                                    *)
(***************************************************************************)
PlaceholderPassword == <<"<","P","A","S","S","W","O","R","D",">">>
PlaceholderEmail == <<"<","E","M","A","I","L",">">>

\* Python: s.replace(old, new), for a non-empty old
RECURSIVE Replace(_, _, _)
Replace(s, old, new) ==
    IF Len(s) < Len(old)
    THEN s
    ELSE IF SubSeq(s, 1, Len(old)) = old
         THEN new \o Replace(SubSeq(s, Len(old) + 1, Len(s)), old, new)
         ELSE <<Head(s)>> \o Replace(Tail(s), old, new)

\* placeholder_map, in the order the dict is written
placeholder_map(cr) ==
    << <<PlaceholderPassword, cr.password>>, <<PlaceholderEmail, cr.email>> >>

\* the loop over placeholder_map.items(), from its k-th item on
RECURSIVE Substitute(_, _, _, _)
Substitute(map, k, real_text, used_placeholders) ==
    IF k > Len(map)
    THEN [real_text |-> real_text, used_placeholders |-> used_placeholders]
    ELSE IF Contains(map[k][1], real_text)
         THEN Substitute(map, k + 1, Replace(real_text, map[k][1], map[k][2]),
                         Append(used_placeholders, map[k][1]))
         ELSE Substitute(map, k + 1, real_text, used_placeholders)

by_map == {"css", "id", "name", "xpath"}

\* the redacted log line of a call that typed
typed_line(call, sub) ==
    IF sub.used_placeholders # <<>>
    THEN [tool |-> "type_text", selector |-> call.selector, by |-> call.by,
          substituted |-> sub.used_placeholders]
    ELSE [tool |-> "type_text", selector |-> call.selector, by |-> call.by,
          text_len |-> Len(sub.real_text)]

\* the message of the exception find_element raises: it names the selector
NoSuchElement(call) == [error |-> "no such element", selector |-> call.selector]

\* utils/tools.py type_text: what it sent to the element, logged and returned
type_text_common(call, cr) ==
    IF call.by \notin by_map
    THEN [sent |-> <<>>, log |-> <<>>, returned |-> "Unsupported selector strategy"]
    ELSE LET sub == Substitute(placeholder_map(cr), 1, call.text, <<>>)
         IN  IF call.element
             THEN [sent |-> <<sub.real_text>>, log |-> <<typed_line(call, sub)>>,
                   returned |-> "OK"]
             ELSE [sent |-> <<>>,
                   log |-> <<[tool |-> "type_text", error |-> NoSuchElement(call)]>>,
                   returned |-> "Error"]

\* run_login.py type_text: the same without the try
type_text_login(call, cr) ==
    IF call.by \notin by_map
    THEN [sent |-> <<>>, log |-> <<>>, returned |-> "Unsupported selector strategy"]
    ELSE LET sub == Substitute(placeholder_map(cr), 1, call.text, <<>>)
         IN  IF call.element
             THEN [sent |-> <<sub.real_text>>, log |-> <<typed_line(call, sub)>>,
                   returned |-> "OK"]
             ELSE [sent |-> <<>>, log |-> <<>>, returned |-> "raised"]

\* the text argument the agent may give
TypedTexts ==
    { PlaceholderEmail,
      PlaceholderPassword,
      <<"h","e","l","l","o">>,
      PlaceholderEmail \o <<" ">> \o PlaceholderPassword,
      <<"x">> \o PlaceholderPassword \o PlaceholderPassword }

\* the credentials a run may be configured with
Passwords == { <<"p","w","1">>, <<"s","e","c","r","e","t","!">>, <<"a">> \o PlaceholderEmail }
Emails == { <<"a","@","b">>, <<"c","@","d",".","e">> }
Credentials == [email : Emails, password : Passwords]

\* the agent loop and the monitor are not part of these runs
IdleLoop ==
    /\ node = "END" /\ step = 0 /\ messages = <<>> /\ view = <<>>
    /\ status = "start" /\ health = "UNKNOWN" /\ health_description = ""
    /\ num_turns = 0 /\ turns_completed = 0
    /\ driver = [url |-> "login", password_field |-> TRUE]
    /\ final_state = NoStep /\ total_steps = 0 /\ result = <<>>

InitTypeText ==
    /\ flow = "type_text"
    /\ pc = "call"
    /\ typing \in [selector : {"#field"}, by : {"css", "id", "class"},
                    text : TypedTexts, element : BOOLEAN]
    /\ creds \in Credentials \X Credentials
    /\ log = << <<>>, <<>> >>
    /\ tool_out = <<>>
    /\ IdleLoop
    /\ IdleTrace
    /\ IdleMonitor
    /\ IdleBatch

TypeTextCommon ==
    /\ flow = "type_text" /\ pc = "call"
    /\ LET out == [r \in 1..2 |-> type_text_common(typing, creds[r])]
       IN  /\ log' = [r \in 1..2 |-> out[r].log]
           /\ tool_out' = [r \in 1..2 |-> [sent |-> out[r].sent, returned |-> out[r].returned]]
    /\ pc' = "common"
    /\ UNCHANGED <<flow, node, step, messages, view, status, health, health_description,
                   num_turns, turns_completed, driver, final_state, total_steps, result>>
    /\ UNCHANGED <<creds, typing, traceVars, monitorVars>>
    /\ UNCHANGED batchVars

TypeTextLogin ==
    /\ flow = "type_text" /\ pc = "call"
    /\ LET out == [r \in 1..2 |-> type_text_login(typing, creds[r])]
       IN  /\ log' = [r \in 1..2 |-> out[r].log]
           /\ tool_out' = [r \in 1..2 |-> [sent |-> out[r].sent, returned |-> out[r].returned]]
    /\ pc' = "login"
    /\ UNCHANGED <<flow, node, step, messages, view, status, health, health_description,
                   num_turns, turns_completed, driver, final_state, total_steps, result>>
    /\ UNCHANGED <<creds, typing, traceVars, monitorVars>>
    /\ UNCHANGED batchVars

\* "Unsupported selector strategy: {by}"
TextUnsupported ==
    <<"U","n","s","u","p","p","o","r","t","e","d"," ","s","e","l","e","c","t","o","r">>

\* mutant: the tool answers with what it typed
tool_result_text_EchoesTyped(out) ==
    CASE out.returned = "OK" -> out.sent[1]
      [] out.returned = "Unsupported selector strategy" -> TextUnsupported
      [] OTHER -> TextError

\* the content of the ToolMessage the tool node builds from type_text's answer
tool_result_text(out) ==
    CASE out.returned = "OK" -> TextOK
      [] out.returned = "Unsupported selector strategy" -> TextUnsupported
      [] OTHER -> TextError

\* run_login.py build_graph: the state the login run starts from
initial_state_login(cr) ==
    [messages |-> initial_messages, goal |-> "goal", creds |-> cr,
     status |-> "start", artefacts_dir |-> "artefacts/run_login"]

\* the steps app.stream(state) yields for the request and its answer: the
\* update of the agent node, then the update of the tools node
type_text_stream(state, out) ==
    LET response ==
            Response(Len(state.messages) + 1,
                     <<Call("type_text", [selector |-> typing.selector, by |-> typing.by,
                                          text |-> typing.text])>>)
        after_agent == state.messages \o agent_node(response).messages
    IN  << [node |-> "agent", update |-> agent_node(response)],
           [node |-> "tools",
            update |-> post_tools(after_agent, <<tool_result_text(out)>>)] >>

\* run_and_save_execution_trace over these steps
login_trace_of(cr, out) ==
    LET steps == type_text_stream(initial_state_login(cr), out)
        first == append_step(new_trace_login,
                             step_data_login(steps[1].node, steps[1].update))
        second == append_step(first, step_data_login(steps[2].node, steps[2].update))
    IN  finalize_login(second, steps[2])

\* the two login runs persist their traces; an exception of the tool either
\* becomes the tool's answer or ends the run before anything is written
PersistLoginTrace ==
    /\ flow = "type_text" /\ pc = "login"
    /\ \E caught \in BOOLEAN :
          IF \A r \in 1..2 : tool_out[r].returned # "raised" \/ caught
          THEN /\ trace_file' = [r \in 1..2 |-> login_trace_of(creds[r], tool_out[r])]
               /\ pc' = "persisted"
          ELSE /\ trace_file' = trace_file
               /\ pc' = "raised"
    /\ UNCHANGED <<flow, node, step, messages, view, status, health, health_description,
                   num_turns, turns_completed, driver, final_state, total_steps, result>>
    /\ UNCHANGED <<trace, uuids, error_folder, toolVars, monitorVars>>
    /\ UNCHANGED batchVars

NextTypeText ==
    \/ TypeTextCommon
    \/ TypeTextLogin
    \/ PersistLoginTrace

SpecTypeText == InitTypeText /\ [][NextTypeText]_vars

(***************************************************************************)
(* The monitor's upload of one error folder (upload_folder_to_s3), with an *)
(* S3 client configured.  What upload_file does for each file is given:    *)
(* it returns, raises ClientError, or raises another exception             *)
(* (S3UploadFailedError, a connection error, a missing local file).        *)
(***************************************************************************)
\* the names an error folder may hold, in the order sorted() gives them
FileOrder == <<"chat.png", "execution_trace.json", "final.png", "initial.png">>
Images == {"chat.png", "final.png", "initial.png"}

UploadOutcomes == {"ok", "ClientError", "Exception"}

\* sorted([trace_file] + image_files): the trace is listed whether it exists or not
files_to_upload(fd) ==
    SelectSeq(FileOrder, LAMBDA f : f = "execution_trace.json" \/ f \in fd.images)

\* the for loop, from the k-th file on: the first exception that is not a
\* ClientError ends it
RECURSIVE UploadLoop(_, _, _, _, _)
UploadLoop(files, outcome, k, files_uploaded, uploaded) ==
    IF k > Len(files)
    THEN [raised |-> FALSE, files_uploaded |-> files_uploaded, uploaded |-> uploaded]
    ELSE CASE outcome[k] = "ok" ->
                UploadLoop(files, outcome, k + 1, files_uploaded + 1, uploaded \cup {files[k]})
           [] outcome[k] = "ClientError" ->
                UploadLoop(files, outcome, k + 1, files_uploaded, uploaded)
           [] OTHER ->
                [raised |-> TRUE, files_uploaded |-> files_uploaded, uploaded |-> uploaded]

Slash == <<"/">>

\* None where a path is expected
NoPath == <<>>

\* str.rstrip('/')
RECURSIVE rstrip(_)
rstrip(text) ==
    IF text # <<>> /\ Last(text) = "/" THEN rstrip(SubSeq(text, 1, Len(text) - 1)) ELSE text

\* ErrorFolderMonitor.__init__: s3_prefix.rstrip('/') if s3_prefix else ""
init_s3_prefix(s3_prefix) == IF s3_prefix # <<>> THEN rstrip(s3_prefix) ELSE <<>>

\* datetime.fromtimestamp(st_ctime).strftime("%Y-%m-%d"): the day of the
\* timestamp, with two timestamps to a day
strftime(ctime) == <<"d", "a", "y", "-">> \o IntToText(ctime \div 2)

s3_path_of_NoDate(fd) ==
    IF config.s3_prefix # <<>> THEN config.s3_prefix \o Slash \o fd.name ELSE fd.name

s3_path_of(fd) ==
    IF config.s3_prefix # <<>>
    THEN config.s3_prefix \o Slash \o strftime(fd.ctime) \o Slash \o fd.name
    ELSE strftime(fd.ctime) \o Slash \o fd.name

\* f"{s3_path}/{file.name}", kept as its two parts
s3_key(s3_path, file_name) == <<s3_path, file_name>>

upload_folder_to_s3_AlwaysSuccess(fd, outcome) ==
    LET loop == UploadLoop(files_to_upload(fd), outcome, 1, 0, {})
    IN  [uploaded |-> loop.uploaded,
         keys |-> {s3_key(s3_path_of(fd), f) : f \in loop.uploaded},
         returned |-> <<TRUE, s3_path_of(fd), loop.files_uploaded, null>>]

\* the body of the try and the outer except of upload_folder_to_s3
upload_folder_to_s3(fd, outcome) ==
    LET loop == UploadLoop(files_to_upload(fd), outcome, 1, 0, {})
        keys == {s3_key(s3_path_of(fd), f) : f \in loop.uploaded}
    IN  IF ~config.s3_client
        THEN \* "S3 not configured - skipping upload": return False, None, 0
             [uploaded |-> {}, keys |-> {}, returned |-> <<FALSE, NoPath, 0>>]
        ELSE IF loop.raised \/ ~fd.trace
        THEN [uploaded |-> loop.uploaded, keys |-> keys,
              returned |-> <<FALSE, NoPath, 0, null>>]
        ELSE [uploaded |-> loop.uploaded, keys |-> keys,
              returned |-> <<loop.files_uploaded > 0, s3_path_of(fd), loop.files_uploaded,
                             "as reported">>]

InitUpload ==
    /\ flow = "monitor"
    /\ pc = "folder"
    /\ folder \in [name : {<<"r", "1">>}, ctime : {1}, images : SUBSET Images, trace : BOOLEAN]
    /\ config = [s3_prefix |-> init_s3_prefix(<<"q", "a", "/">>), sns_topic_arn |-> TRUE,
                 no_delete |-> FALSE,
      s3_client |-> TRUE]
    /\ s3_outcome \in [1..Len(files_to_upload(folder)) -> UploadOutcomes]
    /\ \A k \in 1..Len(files_to_upload(folder)) :
          (files_to_upload(folder)[k] = "execution_trace.json" /\ ~folder.trace)
              => s3_outcome[k] = "Exception"
    /\ s3 = {}
    /\ upload_result = <<>>
    /\ IdleLoop
    /\ IdleTrace
    /\ IdleTools
    /\ error_dir = EmptyDict /\ scanned = <<>> /\ position = 0
    /\ processed_successfully = 0 /\ bucket = {} /\ notifications = <<>>
    /\ handled = <<>> /\ stager = EmptyDict /\ scans = 0 /\ artefacts = EmptyDict

UploadFolder ==
    /\ flow = "monitor" /\ pc = "folder"
    /\ LET out == upload_folder_to_s3(folder, s3_outcome)
       IN  /\ s3' = out.uploaded
           /\ upload_result' = out.returned
    /\ pc' = "uploaded"
    /\ UNCHANGED <<flow, node, step, messages, view, status, health, health_description,
                   num_turns, turns_completed, driver, final_state, total_steps, result>>
    /\ UNCHANGED <<folder, s3_outcome, traceVars, toolVars>>
    /\ bucket' = bucket \cup upload_folder_to_s3(folder, s3_outcome).keys
    /\ UNCHANGED <<config, error_dir, scanned, position, processed_successfully,
                   notifications, handled, stager, scans, artefacts>>

NextUpload == UploadFolder

SpecUpload == InitUpload /\ [][NextUpload]_vars

(***************************************************************************)
(* The monitor's batch (run: scan_for_folders, then process_folders over   *)
(* the list), with an S3 client and a bucket configured.  One step of      *)
(* process_folders is one iteration of its loop.  What upload_file,        *)
(* sns.publish and shutil.rmtree do on each call is given.                 *)
(***************************************************************************)
MaxScans == 2

RunIds == {<<"r", "1">>, <<"r", "2">>}
StrayFile == <<"n", "o", "t", "e">>
BucketName == <<"b">>

PublishOutcomes == {"ok", "ClientError", "Exception"}
DeleteOutcomes == {"ok", "OSError"}

\* what upload_file may do for each file of a folder: a file that is not
\* there cannot be sent
\* AWS calls and rmtree may fail when the monitor is looked at on its own;
\* beside the stager they are taken to succeed
Faults == flow = "monitor"

OutcomesFor(fd) ==
    {o \in [1..Len(files_to_upload(fd)) -> UploadOutcomes] :
        \A k \in DOMAIN o :
            /\ (files_to_upload(fd)[k] = "execution_trace.json" /\ ~fd.trace)
                  => o[k] = "Exception"
            /\ (~Faults /\ o[k] # "ok")
                  => (files_to_upload(fd)[k] = "execution_trace.json" /\ ~fd.trace)}

\* the orders in which iterdir() may list the entries
Listings(names) ==
    {l \in [1..Cardinality(names) -> names] : \A i, j \in DOMAIN l : l[i] = l[j] => i = j}

\* list.sort(key=...): stable, ascending
RECURSIVE sort(_, _)
sort(items, key) ==
    IF items = <<>> THEN <<>>
    ELSE LET front == sort(SubSeq(items, 1, Len(items) - 1), key)
             item == Last(items)
         IN  SelectSeq(front, LAMBDA x : key[x] <= key[item]) \o <<item>>
                 \o SelectSeq(front, LAMBDA x : key[x] > key[item])

scan_for_folders_Unsorted(listing) ==
    SelectSeq(listing, LAMBDA item : error_dir[item].kind = "dir")

\* a scan that leaves out the folders with objects in the bucket
scan_for_folders_SkipsUploaded(listing) ==
    sort(SelectSeq(listing, LAMBDA item :
             /\ error_dir[item].kind = "dir"
             /\ ~\E key \in bucket :
                   key[1] = s3_path_of([name |-> item, ctime |-> error_dir[item].ctime])),
         [item \in DOMAIN error_dir |-> error_dir[item].ctime])

scan_for_folders(listing) ==
    sort(SelectSeq(listing, LAMBDA item : error_dir[item].kind = "dir"),
         [item \in DOMAIN error_dir |-> error_dir[item].ctime])

\* the s3_path message attribute
S3Uri(s3_path) == <<"s", "3", ":", "/", "/">> \o BucketName \o Slash \o s3_path \o Slash

publish_sns_notification(fd, s3_path, files_uploaded, final_health_description, outcome) ==
    IF ~config.sns_topic_arn THEN [returned |-> FALSE, published |-> <<>>]
    ELSE IF outcome = "ok"
    THEN [returned |-> TRUE,
          published |-> <<[run_id |-> fd.name,
                           date |-> strftime(fd.ctime),
                           s3_path |-> S3Uri(s3_path),
                           files_uploaded |-> files_uploaded,
                           final_health_description |->
                               IF final_health_description = null THEN "unknown"
                               ELSE final_health_description]>>]
    ELSE [returned |-> FALSE, published |-> <<>>]

Without(dir, name) == [item \in DOMAIN dir \ {name} |-> dir[item]]

delete_folder(name, outcome) ==
    IF config.no_delete THEN [returned |-> TRUE, dir |-> error_dir, did |-> "retained"]
    ELSE IF outcome = "ok"
    THEN [returned |-> TRUE, dir |-> Without(error_dir, name), did |-> "ok"]
    ELSE [returned |-> FALSE, dir |-> error_dir, did |-> outcome]

cleanup_after_notification_OnlyIfSent(note, name, outcome) ==
    IF note.returned THEN delete_folder(name, outcome)
    ELSE [returned |-> FALSE, dir |-> error_dir, did |-> "skipped"]

\* process_folders after the upload succeeded: what publish_sns_notification
\* returned is dropped, and delete_folder is called
cleanup_after_notification(note, name, outcome) == delete_folder(name, outcome)

loopButPc == <<flow, node, step, messages, view, status, health, health_description,
               num_turns, turns_completed, driver, final_state, total_steps, result>>

\* what an error folder may hold: a trace alone, a trace and a capture, a
\* capture without its trace
FolderContents ==
    {[images |-> {}, trace |-> TRUE],
     [images |-> {"chat.png"}, trace |-> TRUE],
     [images |-> {"chat.png"}, trace |-> FALSE]}

\* the monitors main() may build: S3_PREFIX, SNS_TOPIC_ARN and NO_DELETE
Configs ==
    {[s3_prefix |-> init_s3_prefix(<<"q", "a", "/">>), sns_topic_arn |-> TRUE, no_delete |-> FALSE,
      s3_client |-> TRUE],
     [s3_prefix |-> init_s3_prefix(<<>>), sns_topic_arn |-> TRUE, no_delete |-> FALSE,
      s3_client |-> TRUE],
     [s3_prefix |-> init_s3_prefix(<<"q", "a", "/">>), sns_topic_arn |-> FALSE, no_delete |-> FALSE,
      s3_client |-> TRUE],
     [s3_prefix |-> init_s3_prefix(<<"q", "a", "/">>), sns_topic_arn |-> TRUE, no_delete |-> TRUE,
      s3_client |-> TRUE],
     [s3_prefix |-> init_s3_prefix(<<"q", "a", "/">>), sns_topic_arn |-> TRUE, no_delete |-> FALSE,
      s3_client |-> FALSE]}

\* the run staged later has the smaller number: name order is not age order
CreatedAt == (<<"r", "1">> :> 2) @@ (<<"r", "2">> :> 1)

InitMonitor ==
    /\ flow = "monitor"
    /\ pc = "scan"
    /\ config \in Configs
    /\ \E contents \in [RunIds -> FolderContents] :
          error_dir = [id \in RunIds |->
                          [kind |-> "dir", ctime |-> CreatedAt[id],
                           images |-> contents[id].images, trace |-> contents[id].trace]]
                      @@ (StrayFile :> [kind |-> "file", ctime |-> 0, images |-> {},
                                        trace |-> FALSE])
    /\ scanned = <<>> /\ position = 0 /\ processed_successfully = 0
    /\ bucket = {} /\ notifications = <<>> /\ handled = <<>>
    /\ stager = EmptyDict /\ scans = 0 /\ artefacts = EmptyDict
    /\ IdleLoop
    /\ IdleTrace
    /\ IdleTools
    /\ IdleMonitor

\* run(): scan_for_folders, then process_folders starts on the list
Scan ==
    /\ flow \in {"monitor", "stage-and-scan"} /\ pc \in {"scan", "done"}
    /\ scans < MaxScans
    /\ \E listing \in Listings(DOMAIN error_dir) : scanned' = scan_for_folders(listing)
    /\ position' = 0
    /\ processed_successfully' = 0
    /\ handled' = <<>>
    /\ scans' = scans + 1
    /\ pc' = "process"
    /\ UNCHANGED <<loopButPc, traceVars, toolVars, monitorVars>>
    /\ UNCHANGED <<config, error_dir, bucket, notifications, stager, artefacts>>

\* one iteration of the for loop of process_folders
ProcessFolder ==
    /\ flow \in {"monitor", "stage-and-scan"} /\ pc = "process"
    /\ position < Len(scanned)
    /\ LET name == scanned[position + 1]
       IN  IF name \notin DOMAIN error_dir
           THEN \* folder.stat() of the "Created:" log line raises
                /\ pc' = "raised"
                /\ UNCHANGED <<error_dir, position, processed_successfully, bucket,
                               notifications, handled>>
           ELSE LET fd == [name |-> name] @@ error_dir[name]
                IN  \E outcome \in OutcomesFor(fd),
                       sns_outcome \in IF Faults THEN PublishOutcomes ELSE {"ok"},
                       rm_outcome \in IF Faults THEN DeleteOutcomes ELSE {"ok"} :
                      LET up == upload_folder_to_s3(fd, outcome)
                          success == up.returned[1]
                          s3_path == up.returned[2]
                          escalate == success /\ s3_path # NoPath
                          note == publish_sns_notification(fd, s3_path, up.returned[3],
                                                           up.returned[4], sns_outcome)
                          del == cleanup_after_notification(note, name, rm_outcome)
                      IN  IF Len(up.returned) # 4
                          THEN \* the unpack into four names raises ValueError
                               /\ pc' = "raised"
                               /\ UNCHANGED <<error_dir, position, processed_successfully,
                                              bucket, notifications, handled>>
                          ELSE
                          /\ bucket' = bucket \cup up.keys
                          /\ notifications' =
                                 IF escalate THEN notifications \o note.published
                                 ELSE notifications
                          /\ error_dir' = IF escalate THEN del.dir ELSE error_dir
                          /\ processed_successfully' =
                                 IF escalate /\ del.returned THEN processed_successfully + 1
                                 ELSE processed_successfully
                          /\ handled' = Append(handled,
                                 [name |-> name,
                                  entry |-> error_dir[name],
                                  uploaded |-> up.uploaded,
                                  returned |-> up.returned,
                                  notify |-> IF ~escalate THEN "skipped"
                                             ELSE IF ~config.sns_topic_arn THEN "unset"
                                             ELSE IF note.returned THEN "sent"
                                             ELSE "failed",
                                  delete |-> IF ~escalate THEN "skipped" ELSE del.did])
                          /\ position' = position + 1
                          /\ pc' = pc
    /\ UNCHANGED <<loopButPc, traceVars, toolVars, monitorVars>>
    /\ UNCHANGED <<config, scanned, stager, scans, artefacts>>

\* process_folders returns its counter and run() the length of the list
Finish ==
    /\ flow \in {"monitor", "stage-and-scan"} /\ pc = "process"
    /\ position = Len(scanned)
    /\ pc' = "done"
    /\ UNCHANGED <<loopButPc, traceVars, toolVars, monitorVars, batchVars>>

\* a scanned folder that the loop has not reached yet is removed by someone
\* else (another monitor on the same directory, an operator)
FolderVanishes ==
    /\ flow = "monitor" /\ pc = "process"
    /\ \E k \in (position + 1)..Len(scanned) :
          /\ scanned[k] \in DOMAIN error_dir
          /\ error_dir' = Without(error_dir, scanned[k])
    /\ UNCHANGED <<loopVars, traceVars, toolVars, monitorVars>>
    /\ UNCHANGED <<config, scanned, position, processed_successfully, bucket,
                   notifications, handled, stager, scans, artefacts>>

NextMonitor ==
    \/ Scan
    \/ ProcessFolder
    \/ Finish
    \/ FolderVanishes

SpecMonitor == InitMonitor /\ [][NextMonitor]_vars

(***************************************************************************)
(* Staging (copy_trace_to_error_folder), one file-system call at a time:   *)
(* the trace is read, the error folder is made, the trace is copied, then  *)
(* each capture.  Each failed run has its own artefact directory.          *)
(***************************************************************************)
MaxStagings == 3

ArtefactDirs == {1, 2}

\* str(uuid) as the name of a folder
FolderName(run_id) == <<"r">> \o IntToText(run_id)

\* artefacts_dir.glob("*.png"), as a list
png_files(d) == SelectSeq(FileOrder, LAMBDA f : f \in artefacts[d].pngs)

\* what the artefact directory of a run may hold: the trace of a chat run
\* (with the run id drawn when the run began), the trace of a login run, or
\* no trace, and the captures
ArtefactContents(d) ==
    [trace : {TRUE}, doc : {new_trace_chat(d - 1), new_trace_login},
     pngs : {{}, {"chat.png"}, {"chat.png", "final.png"}}]
        \cup [trace : {FALSE}, doc : {EmptyDict}, pngs : {{}, {"chat.png"}}]

IdleStager == [pc |-> "idle", dir |-> 0, name |-> NoPath, todo |-> <<>>, calls |-> 0,
               staged |-> <<>>]

InitStaging ==
    /\ flow = "staging"
    /\ pc = "scan"
    /\ artefacts \in [ArtefactDirs -> UNION {ArtefactContents(d) : d \in ArtefactDirs}]
    /\ \A d \in ArtefactDirs : artefacts[d] \in ArtefactContents(d)
    /\ stager = IdleStager
    /\ config = [s3_prefix |-> init_s3_prefix(<<"q", "a", "/">>), sns_topic_arn |-> TRUE,
                 no_delete |-> FALSE,
      s3_client |-> TRUE]
    /\ error_dir = EmptyDict /\ scanned = <<>> /\ position = 0
    /\ processed_successfully = 0 /\ bucket = {} /\ notifications = <<>>
    /\ handled = <<>> /\ scans = 0
    /\ IdleLoop
    /\ trace = EmptyDict /\ trace_file = <<>> /\ error_folder = <<>>
    /\ uuids = Cardinality(ArtefactDirs)
    /\ IdleTools
    /\ IdleMonitor

stagerFrame == <<loopVars, trace, trace_file, error_folder, toolVars, monitorVars, config,
                 scanned, position, processed_successfully, bucket, notifications, handled,
                 scans, artefacts>>

\* the call begins: trace_file.exists(), json.load, the run id
StageBegin ==
    /\ flow \in {"staging", "stage-and-scan"}
    /\ stager.pc = "idle"
    /\ stager.calls < MaxStagings
    /\ \E d \in ArtefactDirs :
          IF ~artefacts[d].trace
          THEN /\ stager' = [stager EXCEPT !.calls = @ + 1,
                                           !.staged = Append(@, [dir |-> d, name |-> NoPath,
                                                                 returned |-> NoPath,
                                                                 raised |-> FALSE])]
               /\ UNCHANGED uuids
          ELSE LET trace_data == artefacts[d].doc
                   run_id == Get(trace_data, "run_id", uuid4(uuids))
               IN  /\ stager' = [stager EXCEPT !.pc = "mkdir", !.dir = d,
                                               !.name = FolderName(run_id),
                                               !.todo = png_files(d),
                                               !.calls = @ + 1]
                   /\ uuids' = uuids + 1
    /\ UNCHANGED <<stagerFrame, error_dir>>

\* error_run_dir.mkdir(parents=True, exist_ok=True)
StageMkdir ==
    /\ stager.pc = "mkdir"
    /\ error_dir' =
          IF stager.name \in DOMAIN error_dir THEN error_dir
          ELSE error_dir @@ (stager.name :> [kind |-> "dir", ctime |-> stager.calls,
                                             images |-> {}, trace |-> FALSE])
    /\ stager' = [stager EXCEPT !.pc = "trace"]
    /\ UNCHANGED <<stagerFrame, uuids>>

\* the call ends by an exception of shutil.copy2
StageRaised ==
    [stager EXCEPT !.pc = "idle",
                   !.staged = Append(@, [dir |-> stager.dir, name |-> stager.name,
                                         returned |-> NoPath, raised |-> TRUE])]

\* shutil.copy2(trace_file, error_trace_file)
StageCopyTrace ==
    /\ stager.pc = "trace"
    /\ IF stager.name \in DOMAIN error_dir
       THEN /\ error_dir' = [error_dir EXCEPT ![stager.name].trace = TRUE]
            /\ stager' = [stager EXCEPT !.pc = "png"]
       ELSE /\ stager' = StageRaised
            /\ UNCHANGED error_dir
    /\ UNCHANGED <<stagerFrame, uuids>>

\* shutil.copy2(png_file, dest_file), for the next capture
StageCopyPng ==
    /\ stager.pc = "png"
    /\ stager.todo # <<>>
    /\ IF stager.name \in DOMAIN error_dir
       THEN /\ error_dir' = [error_dir EXCEPT ![stager.name].images = @ \cup {Head(stager.todo)}]
            /\ stager' = [stager EXCEPT !.todo = Tail(@)]
       ELSE /\ stager' = StageRaised
            /\ UNCHANGED error_dir
    /\ UNCHANGED <<stagerFrame, uuids>>

\* return error_trace_file
StageReturn ==
    /\ stager.pc = "png"
    /\ stager.todo = <<>>
    /\ stager' = [stager EXCEPT !.pc = "idle",
                                !.staged = Append(@, [dir |-> stager.dir, name |-> stager.name,
                                                      returned |-> stager.name,
                                                      raised |-> FALSE])]
    /\ UNCHANGED <<stagerFrame, uuids, error_dir>>

NextStaging ==
    \/ StageBegin
    \/ StageMkdir
    \/ StageCopyTrace
    \/ StageCopyPng
    \/ StageReturn

SpecStaging == InitStaging /\ [][NextStaging]_vars

(***************************************************************************)
(* Staging beside the monitor: the steps of copy_trace_to_error_folder     *)
(* interleave with the scans and the loop iterations of the monitor, both  *)
(* working on artefacts/error.                                             *)
(***************************************************************************)
InitStageScan ==
    /\ flow = "stage-and-scan"
    /\ pc = "scan"
    /\ \E captures \in [ArtefactDirs -> {{"chat.png"}, {"chat.png", "final.png"}}] :
          artefacts = [d \in ArtefactDirs |->
                          [trace |-> TRUE, doc |-> new_trace_chat(d - 1), pngs |-> captures[d]]]
    /\ stager = IdleStager
    /\ config \in {c \in Configs : c.sns_topic_arn /\ c.s3_prefix # <<>> /\ c.s3_client}
    /\ error_dir = EmptyDict /\ scanned = <<>> /\ position = 0
    /\ processed_successfully = 0 /\ bucket = {} /\ notifications = <<>>
    /\ handled = <<>> /\ scans = 0
    /\ IdleLoop
    /\ trace = EmptyDict /\ trace_file = <<>> /\ error_folder = <<>>
    /\ uuids = Cardinality(ArtefactDirs)
    /\ IdleTools
    /\ IdleMonitor

NextStageScan ==
    \/ StageBegin
    \/ StageMkdir
    \/ StageCopyTrace
    \/ StageCopyPng
    \/ StageReturn
    \/ Scan
    \/ ProcessFolder
    \/ Finish

SpecStageScan == InitStageScan /\ [][NextStageScan]_vars




(***************************************************************************)
(* The compactor on its own: a history of the shape the loop builds (the   *)
(* two initial messages, then Assistant messages each followed by the      *)
(* result of its tool call) is given to truncate_html_tool_messages.       *)
(***************************************************************************)
CompactorPayloads == {PageHtml, Page300, PageLong, TextError, TextOK}

ToolMessageCount(msgs) == Len(SelectSeq(msgs, LAMBDA m : m.type = "ToolMessage"))

InitCompact ==
    /\ flow = "compact"
    /\ pc = "input"
    /\ node = "END"
    /\ step = 0
    /\ messages = initial_messages
    /\ view = <<>>
    /\ status = "start"
    /\ health = "UNKNOWN"
    /\ health_description = ""
    /\ num_turns = 0
    /\ turns_completed = 0
    /\ driver = [url |-> "app", password_field |-> FALSE]
    /\ final_state = NoStep
    /\ total_steps = 0
    /\ result = <<>>
    /\ IdleTrace
    /\ IdleTools
    /\ IdleMonitor
    /\ IdleBatch

AppendExchange ==
    /\ flow = "compact" /\ pc = "input"
    /\ ToolMessageCount(messages) < MaxTools
    /\ \E content \in CompactorPayloads :
          LET response == Response(Len(messages) + 1, <<GetPageHtml>>)
          IN  messages' = messages \o
                  <<response, ToolMessage(content, response.tool_calls[1].id, Len(messages) + 2)>>
    /\ UNCHANGED <<flow, pc, node, step, view, status, health, health_description,
                   num_turns, turns_completed, driver, final_state, total_steps, result>>
    /\ UNCHANGED <<traceVars, toolVars, monitorVars>>
    /\ UNCHANGED batchVars

Compact ==
    /\ flow = "compact" /\ pc = "input"
    /\ view' = truncate_html_tool_messages(messages)
    /\ pc' = "output"
    /\ UNCHANGED <<flow, node, step, messages, status, health, health_description,
                   num_turns, turns_completed, driver, final_state, total_steps, result>>
    /\ UNCHANGED <<traceVars, toolVars, monitorVars>>
    /\ UNCHANGED batchVars

\* the compactor applied to its own output
Recompact ==
    /\ flow = "compact" /\ pc = "output"
    /\ view' = truncate_html_tool_messages(view)
    /\ pc' = "recompacted"
    /\ UNCHANGED <<flow, node, step, messages, status, health, health_description,
                   num_turns, turns_completed, driver, final_state, total_steps, result>>
    /\ UNCHANGED <<traceVars, toolVars, monitorVars>>
    /\ UNCHANGED batchVars

NextCompact ==
    \/ AppendExchange
    \/ Compact
    \/ Recompact

SpecCompact == InitCompact /\ [][NextCompact]_vars

\* the loop is single-threaded and runs to its end: a step that can be taken is taken
FairSpec == Spec /\ WF_vars(Next)

(***************************************************************************)
(* Vocabulary of the properties.                                           *)
(***************************************************************************)
HasReport(msg) ==
    \E k \in 1..Len(msg.tool_calls) : msg.tool_calls[k].name = "report_completion"

CarriesRequests(msg) == msg.type = "AIMessage" /\ msg.tool_calls # <<>>

\* the status that ends the loop of the flow
TerminalStatus == IF flow = "chat" THEN "completed" ELSE "logged_in"

\* the authenticated-session predicate, on the session itself
Authenticated(d) == d.url # "login" /\ d.url # "signin" /\ d.password_field = FALSE

NodeRan == step' = step + 1

SetMax(S) == CHOOSE x \in S : \A y \in S : y <= x

(***************************************************************************)
(* C1.  The run starts at decide (agent); after agent the next node is     *)
(* tools if the Assistant message just appended carries a tool call, else  *)
(* check; after tools it is check; after check it is END if the status is  *)
(* the terminal status, else agent.  The node changes in no other way.     *)
(***************************************************************************)
C1_Transition ==
    IF NodeRan
    THEN \/ /\ node = "agent"
            /\ node' = IF CarriesRequests(Last(messages')) THEN "tools" ELSE "check"
            /\ Len(messages') = Len(messages) + 1
         \/ /\ node = "tools"
            /\ node' = "check"
         \/ /\ node = "check"
            /\ node' = IF status' = TerminalStatus THEN "END" ELSE "agent"
    ELSE node' = node

\* C1: the run starts at agent and every step follows the transition relation
C1_Routing == (node = "agent") /\ [][C1_Transition]_vars

\* a run that went through agent, tools, check, agent again and ended
C1_Witness ==
    /\ node = "END"
    /\ step >= 5
    /\ \E i \in 1..Len(messages) : messages[i].type = "ToolMessage"

(***************************************************************************)
(* C2 (as claimed).  A run that stops at the bound, short of END, returns  *)
(* normally to its caller as a failure: it does not raise, its status is   *)
(* not the completion status and success is false.                         *)
(***************************************************************************)
C2_BoundIsNonFatal ==
    (pc # "stream" /\ node # "END" /\ step >= recursion_limit)
        => (pc = "returned" /\ status # TerminalStatus /\ result = <<FALSE, artefacts_dir>>)

(***************************************************************************)
(* C3.  The completion signal: in the chat flow a report_completion        *)
(* request in the history, in the login flow an authenticated session.     *)
(***************************************************************************)
C3_SignalGiven ==
    \/ flow = "chat" /\ \E i \in 1..Len(messages) : HasReport(messages[i])
    \/ flow = "login" /\ Authenticated(driver)

C3_Terminal == pc = "returned" /\ node = "END" /\ status = TerminalStatus

C3_SignalInTime ==
    /\ pc = "stream"
    /\ \/ /\ flow = "chat" /\ node = "tools" /\ HasReport(Last(messages))
          /\ step + 2 <= recursion_limit
       \/ /\ flow = "login" /\ node = "check" /\ Authenticated(driver)
          /\ step + 1 <= recursion_limit

C4_Step ==
    flow = "chat" =>
        /\ num_turns' = num_turns /\ turns_completed' = turns_completed
        /\ (status' = "completed" /\ status # "completed")
              => (node = "tools" /\ NodeRan /\ HasReport(Last(messages)))
        /\ (NodeRan /\ node = "agent") => status' = status
        /\ (NodeRan /\ node = "tools")
              => status' = IF HasReport(Last(messages)) THEN "completed" ELSE status
        /\ (NodeRan /\ node = "check")
              => status' = IF status = "completed" THEN "completed" ELSE "continue"

C5_Step ==
    (flow = "login" /\ NodeRan) =>
        /\ node = "check" => /\ (node' = "END") <=> Authenticated(driver)
                             /\ (status' = "logged_in") <=> Authenticated(driver)
        /\ node # "check" => (status' = status /\ node' # "END")

\* C5: the login loop ends at a check exactly if the session is authenticated
C5_LoginEndsOnPredicateOnly == [][C5_Step]_vars

\* the agent's own check_is_logged_in answered False, the loop went on and
\* later ended at a check
C5_Witness ==
    /\ flow = "login" /\ node = "END" /\ status = "logged_in"
    /\ \E i \in 1..Len(messages) :
          messages[i].type = "ToolMessage" /\ messages[i].content = TextFalse

(***************************************************************************)
(* C6 (as claimed).  A chat run that is over has returned success = true   *)
(* if the final self-reported health is OK and success = false in every    *)
(* other case, together with the artefact directory.                       *)
(***************************************************************************)
C6_ChatRunReturnsHealthIsOK ==
    (flow = "chat" /\ pc # "stream") => result = <<health = "OK", artefacts_dir>>

(***************************************************************************)
(* C7.  In the stored history every ToolMessage answers exactly one tool   *)
(* call of an earlier message, and the history handed to the decision      *)
(* function has, position by position, the same message ids, classes, tool *)
(* calls and tool_call_ids as the stored history it was made from.         *)
(***************************************************************************)
RequestsBefore(msgs, i) ==
    { jk \in UNION { {<<j, k>> : k \in 1..Len(msgs[j].tool_calls)} : j \in 1..(i - 1) } :
        msgs[jk[1]].tool_calls[jk[2]].id = msgs[i].tool_call_id }

Paired(msgs) ==
    \A i \in 1..Len(msgs) :
        msgs[i].type = "ToolMessage" => Cardinality(RequestsBefore(msgs, i)) = 1

\* C7: every ToolMessage answers exactly one earlier tool call, in the stored
\* history and in the history handed to the decision function
C7_HistoryPairing ==
    flow \in {"chat", "login"} =>
        /\ Paired(messages)
        /\ Len(view) <= Len(messages)
        /\ \A i \in 1..Len(view) :
              /\ view[i].id = messages[i].id
              /\ view[i].type = messages[i].type
              /\ view[i].tool_calls = messages[i].tool_calls
              /\ view[i].tool_call_id = messages[i].tool_call_id
        /\ Paired(view)

\* the decision function was handed a history with a rewritten ToolMessage
C7_Witness ==
    /\ flow = "chat"
    /\ \E i \in 1..Len(view) :
          /\ view[i].type = "ToolMessage"
          /\ view[i].content # messages[i].content
          /\ Cardinality(RequestsBefore(view, i)) = 1

(***************************************************************************)
(* C8.  The compactor returns as many messages as it was given, in the     *)
(* same order; System, Human and Assistant messages are returned as they   *)
(* are, and a ToolMessage differs from its original in its content at most.*)
(***************************************************************************)
C8_CompactorFrame ==
    pc = "output" =>
        /\ Len(view) = Len(messages)
        /\ \A i \in 1..Len(messages) :
              IF messages[i].type = "ToolMessage"
              THEN view[i] = [messages[i] EXCEPT !.content = view[i].content]
              ELSE view[i] = messages[i]

\* a history with a long Human message holding markup and Assistant messages
\* with tool calls, of which a ToolMessage was rewritten
C8_Witness ==
    /\ pc = "output"
    /\ \E i \in 1..Len(messages) : view[i] # messages[i]
    /\ \E i \in 1..Len(messages) :
          /\ messages[i].type = "HumanMessage"
          /\ contains_html(messages[i].content)
          /\ Len(messages[i].content) > TruncateThreshold

(***************************************************************************)
(* C9.  Which ToolMessages the compactor rewrites.                         *)
(***************************************************************************)
HtmlTools(msgs) ==
    { i \in 1..Len(msgs) : msgs[i].type = "ToolMessage" /\ contains_html(msgs[i].content) }

Rewritten == { i \in 1..Len(messages) : view[i] # messages[i] }

\* C9 (as claimed): of the k >= 1 ToolMessages with markup of at least 300
\* characters, all but the last one are rewritten and the last is preserved
C9_AllButLastLargeTruncated ==
    pc = "output" =>
        LET large == { i \in HtmlTools(messages) : Len(messages[i].content) >= TruncateThreshold }
        IN  large # {} => Rewritten = large \ {SetMax(large)}

\* C9 (amended): the last ToolMessage with markup, whatever its length, is
\* preserved; the rewritten messages are exactly the earlier ToolMessages
\* with markup whose content is longer than 300 characters
C9_AllButLastHtmlTruncated ==
    pc = "output" =>
        LET html == HtmlTools(messages)
        IN  /\ html = {} => Rewritten = {}
            /\ html # {} =>
                  /\ view[SetMax(html)] = messages[SetMax(html)]
                  /\ Rewritten = { i \in html : i # SetMax(html)
                                               /\ Len(messages[i].content) > TruncateThreshold }

\* Scenario D: five ToolMessages, three of them with markup and longer
\* than 300 characters, exactly two rewritten
C9_Witness ==
    /\ pc = "output"
    /\ ToolMessageCount(messages) = 5
    /\ Cardinality(HtmlTools(messages)) = 3
    /\ \A i \in HtmlTools(messages) : Len(messages[i].content) > TruncateThreshold
    /\ Cardinality(Rewritten) = 2

(***************************************************************************)
(* C10.  A rewritten ToolMessage is the first 100 characters of the        *)
(* original, the marker, and the last 100 characters of the original; the  *)
(* number in the marker is the original length minus 200, which is the     *)
(* number of characters of the original that the digest leaves out.        *)
(***************************************************************************)
DigitValue(ch) == CHOOSE d \in 0..9 : Digit(d) = ch

RECURSIVE TextToInt(_)
TextToInt(text) ==
    IF Len(text) = 1
    THEN DigitValue(text[1])
    ELSE 10 * TextToInt(SubSeq(text, 1, Len(text) - 1)) + DigitValue(text[Len(text)])

IsDigest(digest, original) ==
    LET head == SubSeq(digest, 1, KeepChars)
        tail == SubSeq(digest, Len(digest) - KeepChars + 1, Len(digest))
        marker == SubSeq(digest, KeepChars + 1, Len(digest) - KeepChars)
        number == SubSeq(marker, Len(MarkerHead) + 1, Len(marker) - Len(MarkerTail))
    IN  /\ head = SubSeq(original, 1, KeepChars)
        /\ tail = SubSeq(original, Len(original) - KeepChars + 1, Len(original))
        /\ SubSeq(marker, 1, Len(MarkerHead)) = MarkerHead
        /\ SubSeq(marker, Len(marker) - Len(MarkerTail) + 1, Len(marker)) = MarkerTail
        /\ Len(number) >= 1
        /\ \A k \in 1..Len(number) : \E d \in 0..9 : number[k] = Digit(d)
        /\ TextToInt(number) = Len(original) - ElidedOffset
        /\ Len(original) = Len(head) + TextToInt(number) + Len(tail)

\* C10: every rewritten ToolMessage is head, marker with the elided count, tail
C10_DigestShape ==
    pc = "output" =>
        \A i \in Rewritten : IsDigest(view[i].content, messages[i].content)

\* two digests with different numbers of elided characters
C10_Witness ==
    /\ pc = "output"
    /\ \E i, j \in Rewritten : Len(messages[i].content) # Len(messages[j].content)

(***************************************************************************)
(* C11.  Compaction is idempotent: the compactor applied to a compacted    *)
(* history gives that compacted history back, message by message; no       *)
(* digest is truncated again and the preserved message is the same one.    *)
(***************************************************************************)
\* the messages of the stored history that the first compaction rewrote
Digests == {i \in 1..Len(messages) : truncate_html_tool_messages(messages)[i] # messages[i]}

\* C11: compact(compact(h)) = compact(h) for every history h
C11_Idempotent == pc = "recompacted" => view = truncate_html_tool_messages(messages)

\* compacted twice: a digest with markup, a digest without, and a long page kept whole
C11_Witness ==
    /\ pc = "recompacted"
    /\ \E i, j \in Digests :
          /\ contains_html(view[i].content)
          /\ ~contains_html(view[j].content)
    /\ \E k \in 1..Len(messages) :
          /\ k > SetMax(Digests)
          /\ IsHtmlToolMessage(messages[k])
          /\ Len(messages[k].content) > TruncateThreshold
          /\ view[k] = messages[k]

(***************************************************************************)
(* C12.  Compaction is a view of one call: a decide step leaves every      *)
(* message of the stored history as it was, each tool result with its full *)
(* content, and appends the one new Assistant message.                     *)
(***************************************************************************)
C12_DecideStep ==
    (NodeRan /\ node = "agent") =>
        /\ Len(messages') = Len(messages) + 1
        /\ SubSeq(messages', 1, Len(messages)) = messages
        /\ Last(messages').type = "AIMessage"

\* every stored tool result is a text a tool returned, whole
C12_FullContent ==
    \A i \in 1..Len(messages) :
        messages[i].type = "ToolMessage" => messages[i].content \in ToolTexts

C13_DecisionGetsCompacted ==
    view # <<>> => view = truncate_html_tool_messages(SubSeq(messages, 1, Len(view)))

(***************************************************************************)
(* C14.  The trace holds one snapshot per loop iteration, in the order of  *)
(* execution: every node that runs appends exactly one snapshot, of that   *)
(* node and of the messages it added, at the end; nothing else changes the *)
(* list; the written document has them all and total_steps counts them.    *)
(***************************************************************************)
C14_Counts ==
    flow \in {"chat", "login"} =>
        /\ Len(trace.steps) = step
        /\ trace_file # <<>> =>
              /\ Last(trace_file).steps = trace.steps
              /\ Last(trace_file).total_steps = step

C14_Step ==
    IF NodeRan
    THEN /\ Len(trace'.steps) = Len(trace.steps) + 1
         /\ SubSeq(trace'.steps, 1, Len(trace.steps)) = trace.steps
         /\ DOMAIN Last(trace'.steps) = {node}
         /\ Last(trace'.steps)[node].messages =
                messages_to_dicts(SubSeq(messages', Len(messages) + 1, Len(messages')))
    ELSE trace'.steps = trace.steps

\* C14: as many snapshots as iterations, in execution order, none dropped or repeated
C14_TraceComplete == []C14_Counts /\ [][C14_Step]_vars

\* a written trace of a run with an act step and at least two decide steps
C14_Witness ==
    /\ trace_file # <<>>
    /\ Last(trace_file).total_steps >= 5
    /\ \E i \in 1..Len(Last(trace_file).steps) : DOMAIN Last(trace_file).steps[i] = {"tools"}

(***************************************************************************)
(* C15.  The summary fields of a written trace are those of its last       *)
(* snapshot: final_status in both flows, final_health and                  *)
(* final_health_description in the chat flow (the login trace has no       *)
(* health), and total_steps is the number of snapshots.                    *)
(***************************************************************************)
\* the one node state a snapshot holds
NodeState(step_data) == step_data[CHOOSE n \in DOMAIN step_data : TRUE]

C15_SummaryOf(doc) ==
    LET last == NodeState(Last(doc.steps))
    IN  /\ "final_status" \in DOMAIN doc
        /\ doc.final_status = last.status
        /\ doc.total_steps = Len(doc.steps)
        /\ flow = "chat" =>
              /\ {"final_health", "final_health_description"} \subseteq DOMAIN doc
              /\ doc.final_health = last.health
              /\ doc.final_health_description = last.health_description
        /\ flow = "login" =>
              {"final_health", "final_health_description"} \cap DOMAIN doc = {}

\* C15: the summary of a finalized trace is read from its last snapshot only
C15_SummaryIsLastSnapshot ==
    \A i \in 1..Len(trace_file) : C15_SummaryOf(trace_file[i])

\* Scenario A: three steps, the last with health OK, while an earlier snapshot has none
C15_Witness ==
    /\ flow = "chat"
    /\ trace_file # <<>>
    /\ Last(trace_file).total_steps = 3
    /\ Last(trace_file).final_health = "OK"
    /\ NodeState(Last(trace_file).steps[1]).health = null

(***************************************************************************)
(* C16 (as claimed).  Every written trace document, of the chat flow and   *)
(* of the login flow, carries the run id the trace was created with, and   *)
(* a staged error folder is named by that id.                              *)
(***************************************************************************)
C16_TraceEmbedsRunId ==
    /\ \A i \in 1..Len(trace_file) :
          /\ "run_id" \in DOMAIN trace_file[i]
          /\ trace_file[i].run_id = uuid4(0)
    /\ error_folder # <<>> =>
          /\ "run_id" \in DOMAIN error_folder.execution_trace
          /\ error_folder.name = error_folder.execution_trace.run_id

(***************************************************************************)
(* C17.  The trace document is written at most once, when the stream has   *)
(* ended and with every recorded step in it.  A decision function that     *)
(* raises ends the run there: no further node runs, nothing is returned    *)
(* and no trace document is ever written.                                  *)
(***************************************************************************)
C17_WrittenAtEnd ==
    /\ Len(trace_file) <= 1
    /\ trace_file # <<>> =>
          /\ node = "END"
          /\ pc \in {"returned", "staged"}
          /\ Last(trace_file).steps = trace.steps
          /\ Len(trace.steps) = step
    /\ result # <<>> => Len(trace_file) = 1

C17_Aborted == pc = "DecisionError" \/ (pc = "staged" /\ node = "agent")

C17_NoRetry ==
    C17_Aborted =>
        /\ C17_Aborted'
        /\ step' = step /\ messages' = messages /\ trace' = trace
        /\ trace_file' = <<>> /\ trace_file = <<>>
        /\ result' = <<>>

\* C17: one write, at run end; a failed decision is fatal and leaves no trace document
C17_TraceWrittenOnceAtEnd == []C17_WrittenAtEnd /\ [][C17_NoRetry]_vars

\* the decision function raised after an act step, and the failed run was staged
C17_Witness ==
    /\ pc = "staged"
    /\ node = "agent"
    /\ step >= 3
    /\ trace_file = <<>>
    /\ error_folder = <<>>

(***************************************************************************)
(* C18 (as claimed).  A fault of a tool never leaves the act step: while   *)
(* the step bound is not reached, a run whose next node is tools is still  *)
(* in its loop, and the step ends with one result per request and check    *)
(* as the next node.                                                       *)
(***************************************************************************)
C18_ActStep ==
    (NodeRan /\ node = "tools") =>
        /\ node' = "check"
        /\ Len(messages') = Len(messages) + Len(Last(messages).tool_calls)

C18_ToolFaultIsAResult ==
    /\ []((node = "tools" /\ step < recursion_limit) => pc = "stream")
    /\ [][C18_ActStep]_vars

(***************************************************************************)
(* C19 (as claimed).  type_text types the text with each placeholder       *)
(* replaced by its secret, and what it logs does not depend on the         *)
(* secrets: a line of a call that substituted names the placeholders of    *)
(* the text argument and carries no text length, so the two runs, which    *)
(* differ only in their credentials, log the same lines.                   *)
(***************************************************************************)
\* the placeholders that occur in the text argument, in the order of placeholder_map
PlaceholdersOf(text) ==
    SelectSeq(<<PlaceholderPassword, PlaceholderEmail>>, LAMBDA ph : Contains(ph, text))

C19_LogOf(r) ==
    \A i \in 1..Len(log[r]) :
        "substituted" \in DOMAIN log[r][i] =>
            /\ log[r][i].substituted = PlaceholdersOf(typing.text)
            /\ "text_len" \notin DOMAIN log[r][i]

C19_LogIndependentOfSecrets ==
    pc \in {"common", "login"} =>
        /\ log[1] = log[2]
        /\ C19_LogOf(1) /\ C19_LogOf(2)

(***************************************************************************)
(* C20 (as claimed).  upload_folder_to_s3 returns, with files_uploaded the *)
(* number of files whose upload succeeded and success true exactly if that *)
(* number is positive, whichever uploads fail and however they fail.       *)
(***************************************************************************)
C20_PartialSuccessCounted ==
    pc = "uploaded" =>
        /\ upload_result[3] = Cardinality(s3)
        /\ upload_result[1] = (Cardinality(s3) > 0)

(***************************************************************************)
(* The monitor's batch: what was done with each folder the loop took.      *)
(***************************************************************************)
\* publish_sns_notification was called for the folder
Escalated(h) == h.notify # "skipped"

\* shutil.rmtree removed the folder
Removed(h) == h.delete = "ok"

\* delete_folder returned True
Counted(h) == h.delete \in {"ok", "retained"}

(***************************************************************************)
(* C21 (as claimed).  While a folder is processed, a notification is       *)
(* published for it if and only if at least one of its files was uploaded  *)
(* in this scan (a notification target that is missing or failing counts   *)
(* as published here: the call is made).                                   *)
(***************************************************************************)
C21_NotifiedIffUploaded ==
    \A i \in DOMAIN handled : Escalated(handled[i]) <=> handled[i].uploaded # {}

(***************************************************************************)
(* C22.  A notification that fails, or a notification target that is not   *)
(* configured, changes nothing else: the upload result stands (success,    *)
(* the count of the files uploaded, the objects in the bucket), the folder *)
(* is cleaned up as the retain flag and rmtree decide, it is counted when  *)
(* delete_folder succeeds, and the loop goes on to the end of the list.    *)
(***************************************************************************)
CountedSoFar == Cardinality({i \in DOMAIN handled : Counted(handled[i])})

C22_NotificationFailureIsolated ==
    /\ \A i \in DOMAIN handled :
          LET h == handled[i]
          IN  h.notify \in {"failed", "unset"} =>
                /\ h.returned[1]
                /\ h.returned[3] = Cardinality(h.uploaded)
                /\ \A f \in h.uploaded : s3_key(h.returned[2], f) \in bucket
                /\ config.no_delete <=> h.delete = "retained"
                /\ h.delete \in {"retained", "ok", "OSError"}
                /\ h.delete = "ok" => h.name \notin DOMAIN error_dir
                /\ h.delete = "retained" => error_dir[h.name] = h.entry
    /\ processed_successfully = CountedSoFar
    /\ pc = "done" => Len(handled) = Len(scanned)

\* a folder whose notification failed was removed and counted, and the
\* folder after it was processed too
C22_Witness ==
    /\ pc = "done"
    /\ Len(handled) = 2
    /\ handled[1].notify = "failed"
    /\ handled[1].delete = "ok"
    /\ handled[2].notify = "failed"
    /\ processed_successfully = 2

(***************************************************************************)
(* C23 (as claimed).  process_folders removes a folder (calls rmtree on    *)
(* it) if and only if at least one of its files was uploaded and the       *)
(* retain flag is unset.  With the retain flag set the folder is kept and  *)
(* a folder with an uploaded file is still counted as processed.           *)
(***************************************************************************)
C23_DeletedIffUploadedAndNotRetained ==
    \A i \in DOMAIN handled :
        LET h == handled[i]
        IN  /\ h.delete \in {"ok", "OSError"} <=> (h.uploaded # {} /\ ~config.no_delete)
            /\ config.no_delete =>
                  /\ h.name \in DOMAIN error_dir
                  /\ h.uploaded # {} => h.delete = "retained"

(***************************************************************************)
(* C24.  A folder none of whose files was uploaded in a scan is neither    *)
(* notified nor deleted and keeps its contents, and the next scan returns  *)
(* it again, with the same run id and the same files.                      *)
(***************************************************************************)
C24_LeftAlone ==
    \A i \in DOMAIN handled :
        LET h == handled[i]
        IN  h.uploaded = {} =>
              /\ h.notify = "skipped"
              /\ h.delete = "skipped"
              /\ h.name \in DOMAIN error_dir
              /\ error_dir[h.name] = h.entry

C24_ScanStep ==
    scans' = scans + 1 =>
        \A i \in DOMAIN handled :
            LET h == handled[i]
            IN  h.uploaded = {} =>
                  /\ \E k \in DOMAIN scanned' : scanned'[k] = h.name
                  /\ error_dir'[h.name] = h.entry

C24_FailedFolderRetried == []C24_LeftAlone /\ [][C24_ScanStep]_vars

\* the objects the bucket holds for a folder
ObjectsOf(h) == {key \in bucket : key[1] = s3_path_of([name |-> h.name] @@ h.entry)}

\* the second scan takes up a folder that has had no file uploaded in either
C24_Witness ==
    /\ scans = 2
    /\ handled # <<>>
    /\ handled[1].uploaded = {}
    /\ ObjectsOf(handled[1]) = {}
    /\ handled[1].entry.trace

(***************************************************************************)
(* C25 (as claimed).  Within one scan no failure in the handling of one    *)
(* folder (a failing file, any kind of upload error, a folder that has     *)
(* vanished) stops the loop: it never ends by an exception with folders of *)
(* the scanned list still untaken.                                         *)
(***************************************************************************)
C25_BatchNeverAborts == ~(pc = "raised" /\ position < Len(scanned))

(***************************************************************************)
(* C29.  Every object uploaded for an error folder has the key             *)
(* prefix/date/run_id/filename: run_id the folder's name, date the day the *)
(* folder was created, filename execution_trace.json or a capture, and the *)
(* prefix (without a trailing slash) left out when it is empty.  The path  *)
(* a notification carries is that prefix/date/run_id of its folder, inside *)
(* the bucket, and objects with that path exist.                           *)
(***************************************************************************)
DayOf(run_id) == <<"d", "a", "y", "-">> \o IntToText(CreatedAt[run_id] \div 2)

RemotePath(run_id) ==
    IF config.s3_prefix = <<>> THEN DayOf(run_id) \o <<"/">> \o run_id
    ELSE config.s3_prefix \o <<"/">> \o DayOf(run_id) \o <<"/">> \o run_id

C29_KeyScheme ==
    /\ config.s3_prefix # <<>> => Last(config.s3_prefix) # "/"
    /\ \A key \in bucket :
          \E run_id \in RunIds, filename \in {"execution_trace.json"} \cup Images :
              key = <<RemotePath(run_id), filename>>
    /\ \A i \in DOMAIN handled :
          \A f \in handled[i].uploaded : <<RemotePath(handled[i].name), f>> \in bucket
    /\ \A n \in DOMAIN notifications :
          LET note == notifications[n]
          IN  /\ note.run_id \in RunIds
              /\ note.date = DayOf(note.run_id)
              /\ note.s3_path = <<"s", "3", ":", "/", "/">> \o BucketName \o <<"/">>
                                    \o RemotePath(note.run_id) \o <<"/">>
              /\ \E key \in bucket : key[1] = RemotePath(note.run_id)

\* Scenario B: every file of a folder is uploaded, the notification carries
\* the path, the local folder is deleted
C29_Witness ==
    /\ config.s3_prefix # <<>>
    /\ handled # <<>>
    /\ handled[1].uploaded = {"chat.png", "execution_trace.json"}
    /\ handled[1].notify = "sent"
    /\ handled[1].delete = "ok"
    /\ notifications # <<>>
    /\ notifications[Len(notifications)].run_id = handled[1].name
    /\ notifications[Len(notifications)].files_uploaded = 2
    /\ handled[1].name \notin DOMAIN error_dir

(***************************************************************************)
(* C30.  A scan returns every directory of the error directory, and        *)
(* nothing else, each once, oldest first by creation time, and             *)
(* process_folders takes the folders in the order of that list.            *)
(***************************************************************************)
Directories(dir) == {item \in DOMAIN dir : dir[item].kind = "dir"}

C30_ScanStep ==
    scans' = scans + 1 =>
        /\ {scanned'[k] : k \in DOMAIN scanned'} = Directories(error_dir)
        /\ Len(scanned') = Cardinality(Directories(error_dir))
        /\ \A i, j \in DOMAIN scanned' :
              i < j => error_dir[scanned'[i]].ctime <= error_dir[scanned'[j]].ctime

C30_InListOrder ==
    /\ Len(handled) = position
    /\ position <= Len(scanned)
    /\ \A i \in DOMAIN handled : handled[i].name = scanned[i]

C27_MissingTraceIsFileLevel ==
    (pc = "uploaded" /\ ~folder.trace /\ folder.images # {}) =>
        /\ \A k \in DOMAIN s3_outcome :
              s3_outcome[k] = "ok" => files_to_upload(folder)[k] \in s3
        /\ upload_result[3] = Cardinality(s3)
        /\ upload_result[1] = (upload_result[3] > 0)

(***************************************************************************)
(* C28 (as claimed).  Staging is keyed by the run: however often the       *)
(* artefact directory of one failed run is staged, its calls all use one   *)
(* error folder, which exists; the calls for two different runs never use  *)
(* the same folder; and staging a directory without a trace document makes *)
(* no folder and returns no path.                                          *)
(***************************************************************************)
FoldersInUse ==
    ({stager.staged[i].name : i \in DOMAIN stager.staged} \cup {stager.name}) \ {NoPath}

C28_StagingKeyedByRun ==
    /\ \A i, j \in DOMAIN stager.staged :
          LET a == stager.staged[i]
              b == stager.staged[j]
          IN  (artefacts[a.dir].trace /\ artefacts[b.dir].trace) =>
                  (a.dir = b.dir <=> a.name = b.name)
    /\ \A i \in DOMAIN stager.staged :
          LET a == stager.staged[i]
          IN  IF artefacts[a.dir].trace
              THEN a.returned = a.name /\ a.name \in DOMAIN error_dir
              ELSE a.returned = NoPath /\ a.name = NoPath
    /\ DOMAIN error_dir \subseteq FoldersInUse

(***************************************************************************)
(* C26 (as claimed).  With staging and scanning interleaved the scanner    *)
(* never removes a folder that the stager has only partly filled, the      *)
(* stager never fails because its folder is gone, and after a staging call *)
(* has returned every file of the run is in the bucket or in the error     *)
(* folder.                                                                 *)
(***************************************************************************)
FilesOfRun(d) == {"execution_trace.json"} \cup artefacts[d].pngs

Uploaded(name, f) ==
    \E key \in bucket, c \in 0..MaxStagings :
        key = s3_key(s3_path_of([name |-> name, ctime |-> c]), f)

Present(name, f) ==
    /\ name \in DOMAIN error_dir
    /\ IF f = "execution_trace.json" THEN error_dir[name].trace
       ELSE f \in error_dir[name].images

C26_NoHalfWrittenFolder ==
    /\ \A i \in DOMAIN stager.staged : ~stager.staged[i].raised
    /\ \A i \in DOMAIN stager.staged :
          LET call == stager.staged[i]
          IN  \A f \in FilesOfRun(call.dir) : Uploaded(call.name, f) \/ Present(call.name, f)
    /\ \A i \in DOMAIN handled :
          LET h == handled[i]
          IN  h.delete = "ok" =>
                \E d \in ArtefactDirs :
                    /\ h.entry.trace
                    /\ h.entry.images = artefacts[d].pngs
                    /\ h.name = FolderName(artefacts[d].doc.run_id)

(***************************************************************************)
(* C31 (as claimed).  Without an S3 client upload_folder_to_s3 still       *)
(* returns four values, (False, None, 0, None), and process_folders skips  *)
(* notification and deletion for each folder and returns 0: it does not    *)
(* end by an exception on a folder that is there.                          *)
(***************************************************************************)
C31_UnavailableS3IsSkipped ==
    ~config.s3_client =>
        /\ ~(pc = "raised" /\ scanned[position + 1] \in DOMAIN error_dir)
        /\ \A i \in DOMAIN handled :
              /\ handled[i].returned = <<FALSE, NoPath, 0, null>>
              /\ handled[i].notify = "skipped"
              /\ handled[i].delete = "skipped"
        /\ processed_successfully = 0

(***************************************************************************)
(* C39.  The monitor keeps no record of what it has escalated.  A folder   *)
(* whose upload succeeded and which is still on disk (retain flag, or a    *)
(* failed rmtree) is in the list of the next scan, to be uploaded and      *)
(* notified again; a folder removed after its upload is in no later list.  *)
(***************************************************************************)
Listed(list, name) == \E k \in DOMAIN list : list[k] = name

C39_ScanStep ==
    scans' = scans + 1 =>
        \A i \in DOMAIN handled :
            LET h == handled[i]
            IN  /\ (h.returned[1] /\ h.delete \in {"retained", "OSError"}) =>
                      /\ Listed(scanned', h.name)
                      /\ error_dir'[h.name] = h.entry
                /\ h.delete = "ok" => ~Listed(scanned', h.name)

C32_HealthInEnum == flow = "chat" => health \in {"UNKNOWN", "OK", "ERROR"}

(***************************************************************************)
(* C33.  A decide step appends exactly one Assistant message to the        *)
(* history and leaves the rest of the RunState as it was: status, health,  *)
(* health description, the number of turns and every earlier message.  The *)
(* browser changes in act steps only.                                      *)
(***************************************************************************)
C33_DecideStep ==
    (NodeRan /\ node = "agent") =>
        /\ Len(messages') = Len(messages) + 1
        /\ SubSeq(messages', 1, Len(messages)) = messages
        /\ Last(messages').type = "AIMessage"
        /\ status' = status
        /\ health' = health
        /\ health_description' = health_description
        /\ num_turns' = num_turns
        /\ driver' = driver

C33_BrowserStep == driver' # driver => (NodeRan /\ node = "tools")

C34_Completed == flow = "chat" /\ status = "completed"

C34_Step ==
    (C34_Completed /\ NodeRan) =>
        /\ node = "check"
        /\ status' = "completed"
        /\ health' = health
        /\ health_description' = health_description
        /\ messages' = messages
        /\ node' = "END"

C34_NoDecide == (C34_Completed /\ pc = "stream") => node \in {"check", "END"}

\* the check that follows the report has run and has ended the loop
C34_Checked == final_state # NoStep /\ final_state.node = "check" /\ node = "END"

\* the report was processed by the last permitted step: the stream stopped
\* at the bound, no check ran
C34_CutShort ==
    /\ pc = "GraphRecursionError"
    /\ node = "check"
    /\ step = recursion_limit

C34_Over == (C34_Completed /\ pc # "stream") => (C34_Checked \/ C34_CutShort)

\* as stated: every finished run with status completed went through its check
C34_CheckAlwaysFollows == (C34_Completed /\ pc # "stream") => C34_Checked

C34_CompletionIsFinal ==
    /\ [](C34_NoDecide /\ C34_Over)
    /\ [][C34_Step]_vars
    /\ (C34_Completed ~> pc # "stream")

\* a run that reported ERROR has gone through its check and has returned
C34_Witness ==
    /\ flow = "chat"
    /\ pc = "returned"
    /\ status = "completed"
    /\ health = "ERROR"
    /\ final_state.node = "check"
    /\ node = "END"

(***************************************************************************)
(* C35.  In the chat flow status and health are written together: while    *)
(* status is not completed, health is UNKNOWN and the health description   *)
(* is empty; health and the description change only in the act step that   *)
(* sets status to completed.                                               *)
(***************************************************************************)
C35_Unreported ==
    (flow = "chat" /\ status # "completed") =>
        (health = "UNKNOWN" /\ health_description = "")

C35_WriteStep ==
    (flow = "chat" /\ (health' # health \/ health_description' # health_description)) =>
        /\ NodeRan
        /\ node = "tools"
        /\ status # "completed"
        /\ status' = "completed"

C35_WrittenTogether == []C35_Unreported /\ [][C35_WriteStep]_vars

\* the act step has just recorded a report: status and health are both set
C35_Witness ==
    /\ flow = "chat"
    /\ pc = "stream"
    /\ final_state # NoStep
    /\ final_state.node = "tools"
    /\ status = "completed"
    /\ health = "OK"
    /\ health_description # ""

(***************************************************************************)
(* C36.  When the login loop has ended through a check step with status    *)
(* logged_in, run_login returns success = true: the authentication         *)
(* predicate evaluated after the loop agrees with the check that ended it. *)
(***************************************************************************)
C36_EndedByCheck ==
    /\ flow = "login"
    /\ pc = "returned"
    /\ final_state # NoStep
    /\ final_state.node = "check"
    /\ status = "logged_in"

C37_NotLonger(input, output) ==
    /\ Len(output) = Len(input)
    /\ \A i \in 1..Len(input) :
          /\ Len(output[i].content) <= Len(input[i].content)
          /\ output[i].content # input[i].content =>
                 /\ Len(input[i].content) > TruncateThreshold
                 /\ Len(output[i].content) < Len(input[i].content)
          /\ Len(input[i].content) <= TruncateThreshold =>
                 output[i].content = input[i].content

C37_CompactStep ==
    /\ (flow = "compact" /\ pc = "input" /\ pc' = "output") =>
           C37_NotLonger(messages, view')
    /\ (flow = "compact" /\ pc = "output" /\ pc' = "recompacted") =>
           C37_NotLonger(view, view')

C37_NeverLonger == [][C37_CompactStep]_vars

\* a history with a page of exactly 300 characters and a rewritten longer one
C37_Witness ==
    /\ flow = "compact"
    /\ pc = "output"
    /\ \E i \in 1..Len(messages) :
          /\ Len(messages[i].content) > TruncateThreshold
          /\ Len(view[i].content) < Len(messages[i].content)
    /\ \E i \in 1..Len(messages) :
          /\ IsHtmlToolMessage(messages[i])
          /\ Len(messages[i].content) = TruncateThreshold
          /\ \E j \in (i + 1)..Len(messages) : IsHtmlToolMessage(messages[j])

(***************************************************************************)
(* C38.  The persisted login trace holds no credential value: every        *)
(* snapshot has only the keys status, goal, messages and artefacts_dir     *)
(* (never creds), no message content or tool-call argument contains the    *)
(* email or the password, and two runs that differ only in their           *)
(* credentials persist the same trace.                                     *)
(***************************************************************************)
C38_SnapshotKeys ==
    {"status", "health", "health_description", "goal", "messages", "artefacts_dir"}

C38_Texts(tr) ==
    UNION { UNION { UNION { {tr.steps[i][n].messages[k].content}
                            \cup (IF "tool_calls" \in DOMAIN tr.steps[i][n].messages[k]
                                  THEN { tr.steps[i][n].messages[k].tool_calls[c].args.text :
                                           c \in DOMAIN tr.steps[i][n].messages[k].tool_calls }
                                  ELSE {}) :
                            k \in DOMAIN tr.steps[i][n].messages } :
                    n \in DOMAIN tr.steps[i] } :
            i \in DOMAIN tr.steps }

====
